---------------------------- MODULE Spec2Model ----------------------------
(***************************************************************************)
(* Guideline-aware shopping assistant: the conversation store, the stage   *)
(* rule, the topic-change detector, the guideline filter, the mapping      *)
(* configuration and the product suggestion pipeline, each modelled from   *)
(* the TypeScript services.                                                *)
(*                                                                         *)
(* Conventions: Undefined stands for JavaScript's undefined/null; ratings *)
(* are in tenths (45 = 4.5), confidences in hundredths (85 = 0.85).        *)
(***************************************************************************)
EXTENDS Integers, Sequences, FiniteSets, TLC

VARIABLES
    stMessages,     \* stage rule: the message list handed to determineConversationStage
    stStage,        \* stage rule: the stage it returned for stMessages
    gStore,         \* guidelines table: the stored guideline rows, in insertion order
    gContext,       \* the context of the last getApplicableGuidelines call (Undefined: none yet)
    gResult,        \* the list that call returned
    tHistory,       \* topic detector: the messages stored for conversation "conv-1"
    tRequest,       \* topic detector: the last request examined (asked = FALSE: none yet)
    tIsTopicChange, \* topic detector: isTopicChange as processMessage computed it
    cfgHeap,        \* mapping tables: the table objects, by the object that owns them
    cfgRef,         \* mapping tables: for each ProductService instance, the objects its mappingConfig points to
    cfgLast,        \* mapping tables: the last mutation, its argument and its outcome
    cfgOps,         \* mapping tables: number of mutations so far
    sCatalog,       \* suggestions: the rows of the products table
    sCall,          \* suggestions: the last generateSmartSuggestions call (context, failing lookups)
    sOut,           \* suggestions: what that call did and returned
    conversations,  \* the conversations table: its rows, in insertion order
    pmCall,         \* processMessage: for each caller, the locals of its current or last call
    pmBefore,       \* processMessage: for each caller, the conversations table when that call began
    pmTurns,        \* processMessage: number of calls begun
    fnArgs,         \* function under examination: the arguments it is called with
    fnResult        \* function under examination: what it returned (called = FALSE: nothing yet)

stageVars == <<stMessages, stStage>>
guideVars == <<gStore, gContext, gResult>>
topicVars == <<tHistory, tRequest, tIsTopicChange>>
configVars == <<cfgHeap, cfgRef, cfgLast, cfgOps>>
suggestVars == <<sCatalog, sCall, sOut>>

agentVars == <<conversations, pmCall, pmBefore, pmTurns>>
fnVars == <<fnArgs, fnResult>>

vars == <<stageVars, guideVars, topicVars, configVars, suggestVars, agentVars, fnVars>>

NotCalled == [called |-> FALSE]

Returned(value) == [called |-> TRUE, value |-> value]

\* No function is under examination.
FnIdle == fnArgs = <<>> /\ fnResult = NotCalled

Undefined == "<undefined>"

\* An absent (undefined) array.
UndefinedList == <<Undefined>>

(***************************************************************************)
(* Bounds of the model.                                                    *)
(***************************************************************************)
MaxUserMsgs == 11
MaxOtherMsgs == 2
MaxGuidelines == 3
MaxHistory == 5
MaxConfigOps == 3
MaxTurns == 2

(***************************************************************************)
(* Generic sequence helpers.                                               *)
(***************************************************************************)
Range(s) == {s[i] : i \in DOMAIN s}

\* Array.prototype.slice(0, n)
Take(s, n) == IF Len(s) <= n THEN s ELSE SubSeq(s, 1, n)

\* Array.prototype.slice(-n)
LastN(s, n) == IF Len(s) <= n THEN s ELSE SubSeq(s, Len(s) - n + 1, Len(s))

\* the least element of a non-empty set of integers
Least(S) == CHOOSE i \in S : \A j \in S : i <= j

Min(a, b) == IF a <= b THEN a ELSE b

\* const x = v; F(x): v is evaluated once and F applied to its value.
With(v, F(_)) == CHOOSE r \in {F(x) : x \in {v}} : TRUE

(***************************************************************************)
(* ConversationService.determineConversationStage                          *)
(***************************************************************************)
IsUser(m) == m.role = "user"

determineConversationStageAllRoles(messages) ==
    LET messageCount == Len(messages)
    IN  IF messageCount <= 1 THEN "introduction"
        ELSE IF messageCount <= 2 THEN "discovery"
        ELSE IF messageCount <= 4 THEN "recommendation"
        ELSE IF messageCount <= 6 THEN "presentation"
        ELSE IF messageCount <= 8 THEN "objection_handling"
        ELSE "closing"

determineConversationStage(messages) ==
    LET messageCount == Len(SelectSeq(messages, IsUser))
    IN  IF messageCount <= 1 THEN "introduction"
        ELSE IF messageCount <= 2 THEN "discovery"
        ELSE IF messageCount <= 4 THEN "recommendation"
        ELSE IF messageCount <= 6 THEN "presentation"
        ELSE IF messageCount <= 8 THEN "objection_handling"
        ELSE "closing"

Roles == {"user", "assistant", "system"}

UserCount(messages) == Len(SelectSeq(messages, IsUser))

StageStart ==
    /\ stMessages = <<>>
    /\ stStage = determineConversationStage(<<>>)

\* A message of any role is appended and the stage is derived again.
StagePush(role) ==
    /\ role = "user" => UserCount(stMessages) < MaxUserMsgs
    /\ role # "user" => Len(stMessages) - UserCount(stMessages) < MaxOtherMsgs
    /\ stMessages' = Append(stMessages, [role |-> role, content |-> "m"])
    /\ stStage' = determineConversationStage(stMessages')

StageStep == \E role \in Roles : StagePush(role)

(***************************************************************************)
(* C8: the stage depends only on the number of user-role messages, never   *)
(* moves backwards as that number grows (order introduction, discovery,    *)
(* recommendation, presentation, objection_handling, closing), and 1 user  *)
(* message gives introduction, 5 give presentation, 10 give closing.       *)
(***************************************************************************)
StageOrder ==
    <<"introduction", "discovery", "recommendation", "presentation",
      "objection_handling", "closing">>

StageRank(stage) == CHOOSE i \in DOMAIN StageOrder : StageOrder[i] = stage

UserOnly(n) == [i \in 1..n |-> [role |-> "user", content |-> "m"]]

C8_StageByUserCount ==
    LET n == UserCount(stMessages)
    IN  /\ stStage \in Range(StageOrder)
        /\ stStage = determineConversationStage(UserOnly(n))
        /\ \A k \in 0..Len(stMessages) :
              StageRank(determineConversationStage(Take(stMessages, k)))
                  <= StageRank(stStage)
        /\ n = 1 => stStage = "introduction"
        /\ n = 5 => stStage = "presentation"
        /\ n = 10 => stStage = "closing"

C8_Witness ==
    /\ UserCount(stMessages) = 10
    /\ Len(stMessages) > 10
    /\ stStage = "closing"

(***************************************************************************)
(* JavaScript string helpers.                                              *)
(***************************************************************************)
UpperAlphabet == "ABCDEFGHIJKLMNOPQRSTUVWXYZ"
LowerAlphabet == "abcdefghijklmnopqrstuvwxyz"

CharAt(s, i) == SubSeq(s, i, i)

toLowerCaseChar(c) ==
    IF \E i \in 1..Len(UpperAlphabet) : CharAt(UpperAlphabet, i) = c
    THEN CharAt(LowerAlphabet, CHOOSE i \in 1..Len(UpperAlphabet) : CharAt(UpperAlphabet, i) = c)
    ELSE c

RECURSIVE LowerCased(_)
LowerCased(s) ==
    IF Len(s) = 0 THEN ""
    ELSE toLowerCaseChar(CharAt(s, 1)) \o LowerCased(SubSeq(s, 2, Len(s)))

\* The strings the model's inputs are built from, lower-cased once.
KnownStrings ==
    {"Compare the price of this specification", "You can buy it with warranty",
     "greeting", "pricing_inquiry", "introduction", "closing", "hello", "hi",
     "Hello", "Price", "PRICES", "phone",
     "iPhone 15", "Galaxy Android Phone", "Budget Smartphone", "MacBook Laptop",
     "Gaming Laptop", "iPad Tablet", "Red Dress", "Kitchen Table",
     "Apple", "Samsung", "Asus", "Ikea", "Google",
     "iphone", "android", "samsung", "pixel", "laptop", "computer", "tablet", "ipad",
     "camera", "smartphone", "gaming", "glasses", "sunglasses", "beauty", "skincare",
     "watch", "Tablet", "dress", "Dress",
     "I need a Laptop", "best iphone camera", "looking for a red dress", "hello there",
     "Kitchen table", "phone under $500", "Here is a smartphone",
     "iPhone 5s", "iPhone 6", "iPhone SE", "iPhone X", "iPhone Silicone Case",
     "samsung gaming tablet", "google pixel photo", "apple phone for games",
     "macbook"}

LowerCasedTable == [s \in KnownStrings |-> LowerCased(s)]

\* String.prototype.toLowerCase
toLowerCase(s) == IF s \in KnownStrings THEN LowerCasedTable[s] ELSE LowerCased(s)

\* String.prototype.includes
includes(s, p) ==
    \E i \in 1..(Len(s) - Len(p) + 1) : SubSeq(s, i, i + Len(p) - 1) = p

\* JavaScript truthiness of an optional string: undefined and "" are falsy.
Truthy(x) == x # Undefined /\ x # ""

(***************************************************************************)
(* GuidelineService: getGuidelines({isActive: true}) and                   *)
(* getApplicableGuidelines(context).                                       *)
(***************************************************************************)

\* Array.prototype.sort with the comparator (a, b) => b.priority - a.priority:
\* a stable sort, here by insertion.
RECURSIVE InsertByPriorityDesc(_, _)
InsertByPriorityDesc(sorted, g) ==
    IF sorted = <<>> THEN <<g>>
    ELSE IF sorted[Len(sorted)].priority >= g.priority THEN Append(sorted, g)
    ELSE Append(InsertByPriorityDesc(SubSeq(sorted, 1, Len(sorted) - 1), g),
                sorted[Len(sorted)])

RECURSIVE SortByPriorityDesc(_)
SortByPriorityDesc(gs) ==
    IF gs = <<>> THEN <<>>
    ELSE InsertByPriorityDesc(SortByPriorityDesc(SubSeq(gs, 1, Len(gs) - 1)), gs[Len(gs)])

RECURSIVE InsertByPriorityAsc(_, _)
InsertByPriorityAsc(sorted, g) ==
    IF sorted = <<>> THEN <<g>>
    ELSE IF sorted[Len(sorted)].priority <= g.priority THEN Append(sorted, g)
    ELSE Append(InsertByPriorityAsc(SubSeq(sorted, 1, Len(sorted) - 1), g),
                sorted[Len(sorted)])

RECURSIVE SortByPriorityAsc(_)
SortByPriorityAsc(gs) ==
    IF gs = <<>> THEN <<>>
    ELSE InsertByPriorityAsc(SortByPriorityAsc(SubSeq(gs, 1, Len(gs) - 1)), gs[Len(gs)])

IsActiveRow(g) == g.is_active

\* query.eq('is_active', true).order('priority', {ascending: false})
getGuidelinesActive(store) == SortByPriorityDesc(SelectSeq(store, IsActiveRow))

\* `axis && axis.length > 0`: the guideline declares a non-empty list for the axis.
Declares(list) == list # UndefinedList /\ Len(list) > 0

\* context_keywords.some(k => context.keywords.some(ck =>
\*     ck.toLowerCase().includes(k.toLowerCase())))
hasKeywordMatch(context_keywords, keywords) ==
    \E i \in DOMAIN context_keywords : \E j \in DOMAIN keywords :
        includes(toLowerCase(keywords[j]), toLowerCase(context_keywords[i]))

\* A variant that lets a declared axis block whenever no overlap is found,
\* also when the context carries no value for the axis.
GuidelinePassesStrict(guideline, context) ==
    IF ~guideline.conditions.defined THEN TRUE
    ELSE
        LET user_intent == guideline.conditions.user_intent
            conversation_stage == guideline.conditions.conversation_stage
            context_keywords == guideline.conditions.context_keywords
        IN  /\ Declares(user_intent) =>
                  context.userIntent \in Range(user_intent)
            /\ Declares(conversation_stage) =>
                  context.conversationStage \in Range(conversation_stage)
            /\ Declares(context_keywords) =>
                  /\ context.keywords # UndefinedList
                  /\ hasKeywordMatch(context_keywords, context.keywords)

\* The filter callback of getApplicableGuidelines.
GuidelinePasses(guideline, context) ==
    IF ~guideline.conditions.defined THEN TRUE
    ELSE
        LET user_intent == guideline.conditions.user_intent
            conversation_stage == guideline.conditions.conversation_stage
            context_keywords == guideline.conditions.context_keywords
        IN  /\ (Declares(user_intent) /\ Truthy(context.userIntent)) =>
                  context.userIntent \in Range(user_intent)
            /\ (Declares(conversation_stage) /\ Truthy(context.conversationStage)) =>
                  context.conversationStage \in Range(conversation_stage)
            /\ (Declares(context_keywords) /\ context.keywords # UndefinedList) =>
                  hasKeywordMatch(context_keywords, context.keywords)

FilterGuidelines(gs, context) ==
    LET Passes(g) == GuidelinePasses(g, context) IN SelectSeq(gs, Passes)

getApplicableGuidelinesAscending(store, context) ==
    SortByPriorityAsc(FilterGuidelines(getGuidelinesActive(store), context))

getApplicableGuidelines(store, context) ==
    SortByPriorityDesc(FilterGuidelines(getGuidelinesActive(store), context))

(***************************************************************************)
(* The guideline rows and contexts the guideline model draws from.         *)
(***************************************************************************)
NoConditions ==
    [defined |-> FALSE, user_intent |-> UndefinedList,
     conversation_stage |-> UndefinedList, context_keywords |-> UndefinedList]

Conditions(intents, stages, keywords) ==
    [defined |-> TRUE, user_intent |-> intents,
     conversation_stage |-> stages, context_keywords |-> keywords]

GuidelinePool ==
    { [id |-> 1, priority |-> 8, is_active |-> TRUE,
       conditions |-> Conditions(<<"greeting">>, <<"introduction">>, <<"hello", "hi">>)],
      [id |-> 2, priority |-> 5, is_active |-> TRUE,
       conditions |-> Conditions(UndefinedList, UndefinedList, UndefinedList)],
      [id |-> 3, priority |-> 9, is_active |-> TRUE,
       conditions |-> Conditions(UndefinedList, <<"closing">>, UndefinedList)],
      [id |-> 4, priority |-> 5, is_active |-> TRUE, conditions |-> NoConditions],
      [id |-> 5, priority |-> 7, is_active |-> TRUE,
       conditions |-> Conditions(<<"pricing_inquiry">>, <<>>, <<"Price">>)],
      [id |-> 6, priority |-> 10, is_active |-> FALSE, conditions |-> NoConditions] }

GuideIntents == {Undefined, "greeting", "pricing_inquiry"}
GuideStages == {Undefined, "introduction", "closing"}
GuideKeywordLists == {UndefinedList, <<>>, <<"Hello">>, <<"PRICES", "phone">>}

NoGuidelineCall ==
    [called |-> FALSE, userIntent |-> Undefined, conversationStage |-> Undefined,
     keywords |-> UndefinedList]

GuideStart ==
    /\ gStore = <<>>
    /\ gContext = NoGuidelineCall
    /\ gResult = <<>>

\* createGuideline: a row is inserted (ids are unique).
GuideCreate(g) ==
    /\ Len(gStore) < MaxGuidelines
    /\ \A i \in DOMAIN gStore : gStore[i].id # g.id
    /\ gStore' = Append(gStore, g)
    /\ gContext' = NoGuidelineCall
    /\ gResult' = <<>>

\* getApplicableGuidelines(context)
GuideQuery(userIntent, conversationStage, keywords) ==
    /\ gContext' = [called |-> TRUE, userIntent |-> userIntent,
                    conversationStage |-> conversationStage, keywords |-> keywords]
    /\ gResult' = getApplicableGuidelines(gStore, gContext')
    /\ UNCHANGED gStore

GuideStep ==
    \/ \E g \in GuidelinePool : GuideCreate(g)
    \/ \E userIntent \in GuideIntents, conversationStage \in GuideStages,
          keywords \in GuideKeywordLists :
            GuideQuery(userIntent, conversationStage, keywords)

ActiveRows(store) == {store[i] : i \in {j \in DOMAIN store : store[j].is_active}}

(***************************************************************************)
(* C2: getApplicableGuidelines returns only guidelines of the active set G *)
(* (each at most once), sorted by priority in descending order.            *)
(***************************************************************************)
C2_SubsetSortedDesc ==
    gContext.called =>
        /\ \A i \in DOMAIN gResult : gResult[i] \in ActiveRows(gStore)
        /\ \A i, j \in DOMAIN gResult : i < j =>
              /\ gResult[i].id # gResult[j].id
              /\ gResult[i].priority >= gResult[j].priority

C2_Witness ==
    /\ gContext.called
    /\ Len(gResult) >= 2
    /\ gResult[1].priority > gResult[Len(gResult)].priority
    /\ \E g \in Range(gStore) : g \notin Range(gResult)
    /\ \E i, j \in DOMAIN gStore : i < j /\ gStore[i].priority < gStore[j].priority

(***************************************************************************)
(* C10: a declared condition axis blocks a guideline only when the context *)
(* supplies a value for that axis and there is no overlap; an axis the     *)
(* context has no value for is skipped, a guideline without conditions     *)
(* always passes, and an empty context returns every active guideline.     *)
(***************************************************************************)
C10_IntentBlocks(g, ctx) ==
    /\ g.conditions.user_intent # UndefinedList
    /\ g.conditions.user_intent # <<>>
    /\ ctx.userIntent # Undefined
    /\ \A i \in DOMAIN g.conditions.user_intent :
          g.conditions.user_intent[i] # ctx.userIntent

C10_StageBlocks(g, ctx) ==
    /\ g.conditions.conversation_stage # UndefinedList
    /\ g.conditions.conversation_stage # <<>>
    /\ ctx.conversationStage # Undefined
    /\ \A i \in DOMAIN g.conditions.conversation_stage :
          g.conditions.conversation_stage[i] # ctx.conversationStage

C10_KeywordBlocks(g, ctx) ==
    /\ g.conditions.context_keywords # UndefinedList
    /\ g.conditions.context_keywords # <<>>
    /\ ctx.keywords # UndefinedList
    /\ \A i \in DOMAIN g.conditions.context_keywords : \A j \in DOMAIN ctx.keywords :
          ~includes(toLowerCase(ctx.keywords[j]),
                    toLowerCase(g.conditions.context_keywords[i]))

C10_AxisSkippedWithoutValue ==
    gContext.called =>
        /\ \A g \in ActiveRows(gStore) :
              /\ ~g.conditions.defined => g \in Range(gResult)
              /\ g.conditions.defined =>
                    (g \notin Range(gResult) <=>
                        \/ C10_IntentBlocks(g, gContext)
                        \/ C10_StageBlocks(g, gContext)
                        \/ C10_KeywordBlocks(g, gContext))
        /\ (/\ gContext.userIntent = Undefined
            /\ gContext.conversationStage = Undefined
            /\ gContext.keywords = UndefinedList)
              => Range(gResult) = ActiveRows(gStore)

\* A guideline declaring all three axes is returned although the context gives
\* only an intent, and another one is blocked by its stage axis.
C10_Witness ==
    /\ gContext.called
    /\ gContext.userIntent = "greeting"
    /\ gContext.conversationStage = "introduction"
    /\ gContext.keywords = UndefinedList
    /\ \E g \in Range(gResult) :
          /\ g.conditions.defined
          /\ g.conditions.context_keywords \notin {UndefinedList, <<>>}
    /\ \E g \in ActiveRows(gStore) : g \notin Range(gResult) /\ C10_StageBlocks(g, gContext)

(***************************************************************************)
(* PromptService.extractKeywords (the shopping assistant's definition).    *)
(***************************************************************************)
Digits == "0123456789"

IsDigit(c) == \E i \in 1..Len(Digits) : CharAt(Digits, i) = c

\* String.prototype.split(/\s+/): the maximal runs between blanks; a leading or
\* trailing blank yields an empty first or last piece.
RECURSIVE SplitFrom(_, _, _)
SplitFrom(s, i, word) ==
    IF i > Len(s) THEN <<word>>
    ELSE IF CharAt(s, i) = " "
         THEN IF i > 1 /\ CharAt(s, i - 1) = " "
              THEN SplitFrom(s, i + 1, word)
              ELSE <<word>> \o SplitFrom(s, i + 1, "")
         ELSE SplitFrom(s, i + 1, word \o CharAt(s, i))

split(s) == SplitFrom(s, 1, "")

shoppingKeywords ==
    {"price", "cost", "budget", "expensive", "cheap", "affordable", "deal", "discount",
     "sale", "offer", "under", "below", "maximum", "minimum", "range", "around",
     "approximately", "about",
     "feature", "specification", "specs", "quality", "rating", "review", "brand", "model",
     "size", "color", "capacity", "storage", "memory", "battery", "camera", "screen",
     "buy", "purchase", "order", "checkout", "cart", "wishlist", "compare", "vs", "versus",
     "difference", "similar", "alternative", "option", "choice", "recommendation",
     "phone", "smartphone", "mobile", "laptop", "computer", "tablet", "headphones",
     "tv", "television", "gaming", "console", "electronics", "tech", "gadget",
     "clothing", "fashion", "shirt", "dress", "shoes", "jeans", "jacket", "bag", "watch",
     "beauty", "skincare", "makeup", "fragrance", "cosmetics", "perfume",
     "home", "furniture", "kitchen", "bedroom", "decor", "appliance",
     "book", "novel", "textbook", "magazine", "reading",
     "health", "fitness", "sports", "exercise", "gym", "outdoor",
     "food", "grocery", "snack", "organic", "beverage",
     "shipping", "delivery", "return", "warranty", "guarantee", "support", "service",
     "availability", "stock", "inventory", "sold", "out", "available",
     "trustworthy", "reliable", "authentic", "genuine", "fake", "counterfeit",
     "help", "assist", "find", "search", "looking", "need", "want", "interested",
     "suggest", "advise", "guide", "best", "top", "popular"}

\* /^\d+$/
IsNumberWord(word) == Len(word) > 0 /\ \A i \in 1..Len(word) : IsDigit(CharAt(word, i))

\* /\$\d+/
HasDollarAmount(word) ==
    \E i \in 1..(Len(word) - 1) : CharAt(word, i) = "$" /\ IsDigit(CharAt(word, i + 1))

MinProductNameLength == 3

KeepsWord(word) ==
    \/ word \in shoppingKeywords
    \/ IsNumberWord(word)
    \/ HasDollarAmount(word)
    \/ Len(word) > MinProductNameLength

ExtractedKeywords(message) == SelectSeq(split(LowerCased(message)), KeepsWord)

(***************************************************************************)
(* The messages the conversation models draw from, with their extraction   *)
(* computed once.                                                          *)
(***************************************************************************)
UserMessages ==
    {"I need a Laptop", "looking for a red dress", "hello there", "Kitchen table"}

AssistantMessages == {"Here is a smartphone"}

\* The messages the requests of the processMessage model carry.
ShopperMessages ==
    {"I need a Laptop", "looking for a red dress", "phone under $500", "hello there"}

AllMessages == UserMessages \cup AssistantMessages \cup ShopperMessages

ExtractedKeywordsTable == [m \in AllMessages |-> ExtractedKeywords(m)]

extractKeywords(message) ==
    IF message \in AllMessages THEN ExtractedKeywordsTable[message]
    ELSE ExtractedKeywords(message)

(***************************************************************************)
(* AgentService.detectTopicChange                                          *)
(***************************************************************************)
shoppingCategories ==
    << [category |-> "electronics",
        keywords |-> {"phone", "smartphone", "iphone", "android", "mobile", "laptop",
                      "computer", "tablet", "headphones", "camera", "tv", "gaming"}],
       [category |-> "fashion",
        keywords |-> {"clothing", "fashion", "shirt", "dress", "shoes", "jeans", "jacket",
                      "accessories", "bag", "watch", "jewelry"}],
       [category |-> "beauty",
        keywords |-> {"beauty", "skincare", "makeup", "fragrance", "perfume", "cosmetics",
                      "shampoo", "lotion", "cream"}],
       [category |-> "home",
        keywords |-> {"furniture", "home", "kitchen", "bedroom", "living", "decor",
                      "appliance", "mattress", "sofa", "table"}],
       [category |-> "sports",
        keywords |-> {"sports", "fitness", "gym", "exercise", "running", "yoga", "outdoor",
                      "bike", "athletic"}],
       [category |-> "books",
        keywords |-> {"book", "novel", "textbook", "ebook", "reading", "literature",
                      "magazine"}],
       [category |-> "health",
        keywords |-> {"health", "medicine", "supplement", "vitamin", "medical", "wellness",
                      "care"}],
       [category |-> "toys",
        keywords |-> {"toy", "game", "puzzle", "kids", "children", "baby", "educational"}],
       [category |-> "automotive",
        keywords |-> {"car", "auto", "vehicle", "automotive", "parts", "accessories",
                      "tire"}],
       [category |-> "food",
        keywords |-> {"food", "snack", "grocery", "organic", "beverage", "cooking",
                      "kitchen"}] >>

\* The two `for ... of Object.entries(shoppingCategories)` loops: the first
\* category with a keyword in the set, '' when there is none.
RECURSIVE CategoryFrom(_, _)
CategoryFrom(i, keywordSet) ==
    IF i > Len(shoppingCategories) THEN ""
    ELSE IF shoppingCategories[i].keywords \cap keywordSet # {}
         THEN shoppingCategories[i].category
         ELSE CategoryFrom(i + 1, keywordSet)

RECURSIVE KeywordsOfAll(_)
KeywordsOfAll(contents) ==
    IF contents = <<>> THEN {}
    ELSE Range(extractKeywords(contents[1].content)) \cup KeywordsOfAll(Tail(contents))

TopicChangeBetween(recentUserMessages, newKeywordList) ==
    IF Len(recentUserMessages) = 0 THEN FALSE
    ELSE
        LET recentKeywords == KeywordsOfAll(recentUserMessages)
            newKeywords == Range(newKeywordList)
            currentCategory == CategoryFrom(1, recentKeywords)
            newCategory == CategoryFrom(1, newKeywords)
        IN  currentCategory # "" /\ newCategory # "" /\ currentCategory # newCategory

\* A variant that looks at every user message of the history.
detectTopicChangeWholeHistory(messages, newKeywordList) ==
    IF Len(messages) = 0 THEN FALSE
    ELSE TopicChangeBetween(SelectSeq(messages, IsUser), newKeywordList)

detectTopicChange(messages, newKeywordList) ==
    IF Len(messages) = 0 THEN FALSE
    ELSE TopicChangeBetween(LastN(SelectSeq(messages, IsUser), 3), newKeywordList)

(***************************************************************************)
(* The topic detector as processMessage calls it: the conversation store   *)
(* holds one conversation, "conv-1"; a request names it, names a           *)
(* conversation that does not exist, or names none.                        *)
(***************************************************************************)
RequestConversationIds == {Undefined, "conv-1", "conv-missing"}

NoTopicRequest == [asked |-> FALSE, message |-> "", conversation_id |-> Undefined]

TopicStart ==
    /\ tHistory = <<>>
    /\ tRequest = NoTopicRequest
    /\ tIsTopicChange = FALSE

\* A message is stored in the conversation.
TopicStore(role, content) ==
    /\ Len(tHistory) < MaxHistory
    /\ tHistory' = Append(tHistory, [role |-> role, content |-> content])
    /\ tRequest' = NoTopicRequest
    /\ tIsTopicChange' = FALSE

\* processMessage up to the topic-change flag: getConversation, then
\* detectTopicChange on the stored messages when the conversation exists.
TopicExamine(message, conversation_id) ==
    LET messageContext == [keywords |-> extractKeywords(message)]
        found == conversation_id = "conv-1"
    IN  /\ tRequest' = [asked |-> TRUE, message |-> message,
                        conversation_id |-> conversation_id]
        /\ tIsTopicChange' =
              IF conversation_id # Undefined /\ found
              THEN detectTopicChange(tHistory, messageContext.keywords)
              ELSE FALSE
        /\ UNCHANGED tHistory

TopicStep ==
    \/ \E content \in UserMessages : TopicStore("user", content)
    \/ \E content \in AssistantMessages : TopicStore("assistant", content)
    \/ \E message \in UserMessages, conversation_id \in RequestConversationIds :
          TopicExamine(message, conversation_id)

(***************************************************************************)
(* C9: detectTopicChange is true exactly when currentCategory and          *)
(* newCategory are both defined and differ, currentCategory being the      *)
(* first taxonomy category with a keyword extracted from the last 3 user   *)
(* messages of the stored history, newCategory the first one with a        *)
(* keyword of the new message; a first message (empty history or no        *)
(* conversation id) never is a topic change.                               *)
(***************************************************************************)
C9_UserIndexes(history) == {i \in DOMAIN history : history[i].role = "user"}

C9_LastThreeUsers(history) ==
    {i \in C9_UserIndexes(history) :
        Cardinality({j \in C9_UserIndexes(history) : j > i}) < 3}

C9_KeywordsAt(history, indexes) ==
    UNION {Range(extractKeywords(history[i].content)) : i \in indexes}

C9_CategoryIndexes(keywordSet) ==
    {i \in DOMAIN shoppingCategories : shoppingCategories[i].keywords \cap keywordSet # {}}

C9_Defined(keywordSet) == C9_CategoryIndexes(keywordSet) # {}

C9_First(keywordSet) ==
    CHOOSE i \in C9_CategoryIndexes(keywordSet) :
        \A j \in C9_CategoryIndexes(keywordSet) : i <= j

C9_TopicChangeRule ==
    tRequest.asked =>
        LET current == C9_KeywordsAt(tHistory, C9_LastThreeUsers(tHistory))
            new == Range(extractKeywords(tRequest.message))
        IN  /\ (tRequest.conversation_id = "conv-1") =>
                  (tIsTopicChange <=>
                      /\ C9_Defined(current)
                      /\ C9_Defined(new)
                      /\ C9_First(current) # C9_First(new))
            /\ (tRequest.conversation_id # "conv-1" \/ tHistory = <<>>) => ~tIsTopicChange

\* A topic change is found although the oldest user message, outside the last
\* three, is of the new message's category, and an assistant message of yet
\* another category is in between.
C9_Witness ==
    /\ tRequest.asked
    /\ tIsTopicChange
    /\ Cardinality(C9_UserIndexes(tHistory)) = 4
    /\ tHistory[1].role = "user"
    /\ C9_Defined(Range(extractKeywords(tHistory[1].content)))
    /\ C9_First(Range(extractKeywords(tHistory[1].content)))
          = C9_First(Range(extractKeywords(tRequest.message)))
    /\ \E i \in DOMAIN tHistory : tHistory[i].role = "assistant"

(***************************************************************************)
(* The mapping configuration (config/data-sync.ts) and its mutations       *)
(* (ProductService).  A table is a function from its keys to its entries;  *)
(* confidences are in hundredths.  Table objects live in a heap, because   *)
(* the constructor copies the default configuration shallowly: a fresh     *)
(* instance points to the default tables themselves.                       *)
(***************************************************************************)
EmptyTable == [k \in {} |-> Undefined]

Put(table, key, entry) ==
    [k \in DOMAIN table \cup {key} |-> IF k = key THEN entry ELSE table[k]]

\* { ...a, ...b }; spreading an absent table adds nothing, like an empty one.
Spread(a, b) ==
    [k \in DOMAIN a \cup DOMAIN b |-> IF k \in DOMAIN b THEN b[k] ELSE a[k]]

defaultMappingConfig ==
    [keywords |->
        [k \in {"phone", "laptop", "glasses", "beauty", "watch"} |->
            CASE k = "phone" -> [searchTerms |-> <<"phone", "smartphone">>,
                                 categories |-> <<"smartphones">>, priority |-> 1]
              [] k = "laptop" -> [searchTerms |-> <<"laptop", "computer">>,
                                  categories |-> <<"laptops">>, priority |-> 1]
              [] k = "glasses" -> [searchTerms |-> <<"glasses", "sunglasses">>,
                                   categories |-> <<"sunglasses">>, priority |-> 1]
              [] k = "beauty" -> [searchTerms |-> <<"beauty", "skincare">>,
                                  categories |-> <<"beauty">>, priority |-> 2]
              [] k = "watch" -> [searchTerms |-> <<"watch">>,
                                 categories |-> <<"mens-watches", "womens-watches">>,
                                 priority |-> 1]],
     intents |->
        [k \in {"phone_recommendation", "laptop_recommendation",
                "general_product_inquiry"} |->
            CASE k = "phone_recommendation" ->
                    [categories |-> <<"smartphones">>,
                     searchTerms |-> <<"phone", "smartphone">>,
                     priority |-> "category", confidence |-> 90]
              [] k = "laptop_recommendation" ->
                    [categories |-> <<"laptops">>,
                     searchTerms |-> <<"laptop", "computer">>,
                     priority |-> "category", confidence |-> 90]
              [] k = "general_product_inquiry" ->
                    [categories |-> <<>>, searchTerms |-> <<>>,
                     priority |-> "search", confidence |-> 50]],
     stages |->
        [k \in {"introduction", "presentation", "closing"} |->
            CASE k = "introduction" ->
                    [strategy |-> "popular", reason |-> "Perfect for getting started",
                     confidence |-> 60, limit |-> 3]
              [] k = "presentation" ->
                    [strategy |-> "top_rated",
                     reason |-> "Featured products with great reviews",
                     confidence |-> 70, limit |-> 4]
              [] k = "closing" ->
                    [strategy |-> "discounted",
                     reason |-> "Best sellers - limited time offer",
                     confidence |-> 80, limit |-> 4]]]

NoError == Undefined

\* Each mutation yields the tables afterwards and the error it raised, if any.
\* Variants that refuse an entry with a negative confidence or priority or
\* without search terms:
EntryRefused(entry) ==
    \/ "confidence" \in DOMAIN entry /\ entry.confidence < 0
    \/ "searchTerms" \in DOMAIN entry /\ entry.searchTerms \in {<<>>, UndefinedList}
    \/ "confidence" \notin DOMAIN entry /\ entry.priority < 0

TableRefuses(table) == \E k \in DOMAIN table : EntryRefused(table[k])

addKeywordMappingValidating(table, keyword, config) ==
    IF EntryRefused(config) THEN [table |-> table, error |-> "ConfigurationError"]
    ELSE [table |-> Put(table, toLowerCase(keyword), config), error |-> NoError]

addIntentMappingValidating(table, intent, config) ==
    IF EntryRefused(config) THEN [table |-> table, error |-> "ConfigurationError"]
    ELSE [table |-> Put(table, intent, config), error |-> NoError]

addStageConfigurationValidating(table, stage, config) ==
    IF EntryRefused(config) THEN [table |-> table, error |-> "ConfigurationError"]
    ELSE [table |-> Put(table, stage, config), error |-> NoError]

updateMappingConfigValidating(mappingConfig, config) ==
    IF TableRefuses(config.keywords) \/ TableRefuses(config.intents)
          \/ TableRefuses(config.stages)
    THEN [config |-> mappingConfig, error |-> "ConfigurationError"]
    ELSE [config |-> [keywords |-> Spread(mappingConfig.keywords, config.keywords),
                      intents |-> Spread(mappingConfig.intents, config.intents),
                      stages |-> Spread(mappingConfig.stages, config.stages)],
          error |-> NoError]

addKeywordMapping(table, keyword, config) ==
    [table |-> Put(table, toLowerCase(keyword), config), error |-> NoError]

addIntentMapping(table, intent, config) ==
    [table |-> Put(table, intent, config), error |-> NoError]

addStageConfiguration(table, stage, config) ==
    [table |-> Put(table, stage, config), error |-> NoError]

updateMappingConfigReplacing(mappingConfig, config) ==
    [config |-> [keywords |-> config.keywords, intents |-> config.intents,
                 stages |-> config.stages],
     error |-> NoError]

updateMappingConfig(mappingConfig, config) ==
    [config |-> [keywords |-> Spread(mappingConfig.keywords, config.keywords),
                 intents |-> Spread(mappingConfig.intents, config.intents),
                 stages |-> Spread(mappingConfig.stages, config.stages)],
     error |-> NoError]

(***************************************************************************)
(* ProductService instances and their configuration.  Objects "svc1" and   *)
(* "svc2" hold the tables updateMappingConfig creates for an instance.      *)
(***************************************************************************)
Instances == {1, 2}

OwnTables(i) == IF i = 1 THEN "svc1" ELSE "svc2"

TableOwners == {"default", "svc1", "svc2"}

NoTables == [keywords |-> EmptyTable, intents |-> EmptyTable, stages |-> EmptyTable]

\* constructor(): { ...defaultMappingConfig, ...undefined }
SharedDefault ==
    [constructed |-> TRUE, keywords |-> "default", intents |-> "default",
     stages |-> "default"]

NotConstructed ==
    [constructed |-> FALSE, keywords |-> "default", intents |-> "default",
     stages |-> "default"]

\* this.mappingConfig of instance i, with the tables it points to.
mappingConfig(heap, ref, i) ==
    [keywords |-> heap[ref[i].keywords].keywords,
     intents |-> heap[ref[i].intents].intents,
     stages |-> heap[ref[i].stages].stages]

\* Arguments of the mutations.
KeywordArgs == {"Tablet"}

KeywordEntries ==
    {[searchTerms |-> <<"tablet">>, categories |-> <<"tablets">>, priority |-> 1],
     [searchTerms |-> <<>>, categories |-> UndefinedList, priority |-> -1]}

IntentArgs == {"general_product_inquiry"}

IntentEntries ==
    {[categories |-> <<"tablets">>, searchTerms |-> <<"tablet">>,
      priority |-> "category", confidence |-> 90],
     [categories |-> <<>>, searchTerms |-> <<>>, priority |-> "search",
      confidence |-> -10]}

StageArgs == {"closing"}

StageEntries ==
    {[strategy |-> "mixed", reason |-> "Hand-picked for you", confidence |-> 70,
      limit |-> 2],
     [strategy |-> "popular", reason |-> "", confidence |-> -50, limit |-> 0]}

UpdateArgs ==
    {[keywords |-> ("tablet" :> e), intents |-> EmptyTable, stages |-> EmptyTable] :
        e \in KeywordEntries}
    \cup {[keywords |-> EmptyTable, intents |-> EmptyTable, stages |-> ("closing" :> e)] :
            e \in StageEntries}

NoMutation ==
    [op |-> "none", instance |-> 1, key |-> "", given |-> NoTables, error |-> NoError,
     before |-> NoTables]

ConfigStart ==
    /\ cfgHeap = [o \in TableOwners |-> IF o = "default" THEN defaultMappingConfig
                                        ELSE NoTables]
    /\ cfgRef = [i \in Instances |-> IF i = 1 THEN SharedDefault ELSE NotConstructed]
    /\ cfgLast = NoMutation
    /\ cfgOps = 0

\* new ProductService()
ConfigConstruct(i) ==
    /\ ~cfgRef[i].constructed
    /\ cfgRef' = [cfgRef EXCEPT ![i] = SharedDefault]
    /\ UNCHANGED <<cfgHeap, cfgLast, cfgOps>>

ConfigMutable(i) == cfgRef[i].constructed /\ cfgOps < MaxConfigOps

ConfigAddKeyword(i, keyword, config) ==
    LET owner == cfgRef[i].keywords
        out == addKeywordMapping(cfgHeap[owner].keywords, keyword, config)
    IN  /\ ConfigMutable(i)
        /\ cfgHeap' = [cfgHeap EXCEPT ![owner].keywords = out.table]
        /\ cfgLast' = [op |-> "addKeywordMapping", instance |-> i, key |-> keyword,
                       given |-> [NoTables EXCEPT !.keywords = keyword :> config],
                       error |-> out.error,
                       before |-> mappingConfig(cfgHeap, cfgRef, i)]
        /\ cfgOps' = cfgOps + 1
        /\ UNCHANGED cfgRef

ConfigAddIntent(i, intent, config) ==
    LET owner == cfgRef[i].intents
        out == addIntentMapping(cfgHeap[owner].intents, intent, config)
    IN  /\ ConfigMutable(i)
        /\ cfgHeap' = [cfgHeap EXCEPT ![owner].intents = out.table]
        /\ cfgLast' = [op |-> "addIntentMapping", instance |-> i, key |-> intent,
                       given |-> [NoTables EXCEPT !.intents = intent :> config],
                       error |-> out.error,
                       before |-> mappingConfig(cfgHeap, cfgRef, i)]
        /\ cfgOps' = cfgOps + 1
        /\ UNCHANGED cfgRef

ConfigAddStage(i, stage, config) ==
    LET owner == cfgRef[i].stages
        out == addStageConfiguration(cfgHeap[owner].stages, stage, config)
    IN  /\ ConfigMutable(i)
        /\ cfgHeap' = [cfgHeap EXCEPT ![owner].stages = out.table]
        /\ cfgLast' = [op |-> "addStageConfiguration", instance |-> i, key |-> stage,
                       given |-> [NoTables EXCEPT !.stages = stage :> config],
                       error |-> out.error,
                       before |-> mappingConfig(cfgHeap, cfgRef, i)]
        /\ cfgOps' = cfgOps + 1
        /\ UNCHANGED cfgRef

\* updateMappingConfig assigns a new object with three new tables; on an error
\* the assignment does not happen.
ConfigUpdate(i, config) ==
    LET out == updateMappingConfig(mappingConfig(cfgHeap, cfgRef, i), config)
    IN  /\ ConfigMutable(i)
        /\ IF out.error = NoError
           THEN /\ cfgHeap' = [cfgHeap EXCEPT ![OwnTables(i)] = out.config]
                /\ cfgRef' = [cfgRef EXCEPT ![i] =
                                 [constructed |-> TRUE, keywords |-> OwnTables(i),
                                  intents |-> OwnTables(i), stages |-> OwnTables(i)]]
           ELSE UNCHANGED <<cfgHeap, cfgRef>>
        /\ cfgLast' = [op |-> "updateMappingConfig", instance |-> i, key |-> "",
                       given |-> config, error |-> out.error,
                       before |-> mappingConfig(cfgHeap, cfgRef, i)]
        /\ cfgOps' = cfgOps + 1

ConfigStep ==
    \/ \E i \in Instances : ConfigConstruct(i)
    \/ \E i \in Instances, keyword \in KeywordArgs, config \in KeywordEntries :
          ConfigAddKeyword(i, keyword, config)
    \/ \E i \in Instances, intent \in IntentArgs, config \in IntentEntries :
          ConfigAddIntent(i, intent, config)
    \/ \E i \in Instances, stage \in StageArgs, config \in StageEntries :
          ConfigAddStage(i, stage, config)
    \/ \E i \in Instances, config \in UpdateArgs : ConfigUpdate(i, config)

(***************************************************************************)
(* C7 as stated: a mutation given a malformed entry (negative confidence,  *)
(* empty searchTerms) raises a configuration error at once and leaves the  *)
(* instance's mapping configuration as it was.                             *)
(***************************************************************************)
C7_MalformedEntry(entry) ==
    \/ "confidence" \in DOMAIN entry /\ entry.confidence < 0
    \/ "searchTerms" \in DOMAIN entry /\ entry.searchTerms = <<>>

C7_MalformedIn(given) ==
    \E t \in {"keywords", "intents", "stages"} :
        \E k \in DOMAIN given[t] : C7_MalformedEntry(given[t][k])

C7_MalformedRejected ==
    (cfgLast.op # "none" /\ C7_MalformedIn(cfgLast.given)) =>
        /\ cfgLast.error # NoError
        /\ mappingConfig(cfgHeap, cfgRef, cfgLast.instance) = cfgLast.before

(***************************************************************************)
(* C7 as the code has it: no mutation validates its argument; a malformed  *)
(* entry raises no error and is stored as given, under its key (lower-cased *)
(* for a keyword), where suggestion generation will read it.               *)
(***************************************************************************)
C7_StoredKey(op, key) == IF op = "addKeywordMapping" THEN toLowerCase(key) ELSE key

C7_MalformedAccepted ==
    (cfgLast.op # "none" /\ C7_MalformedIn(cfgLast.given)) =>
        /\ cfgLast.error = NoError
        /\ \A t \in {"keywords", "intents", "stages"} :
              \A k \in DOMAIN cfgLast.given[t] :
                 LET now == mappingConfig(cfgHeap, cfgRef, cfgLast.instance)[t]
                     stored == C7_StoredKey(cfgLast.op, k)
                 IN  stored \in DOMAIN now /\ now[stored] = cfgLast.given[t][k]

C7_Witness ==
    /\ cfgLast.op = "addIntentMapping"
    /\ cfgLast.given.intents["general_product_inquiry"].confidence < 0
    /\ cfgLast.error = NoError
    /\ mappingConfig(cfgHeap, cfgRef, cfgLast.instance) # cfgLast.before
    /\ mappingConfig(cfgHeap, cfgRef, cfgLast.instance)
          .intents["general_product_inquiry"].confidence < 0

(***************************************************************************)
(* C16: updateMappingConfig merges into the current configuration: after   *)
(* the call every keyword, intent and stage key of the update maps to the  *)
(* update's entry, and every key present before and not named in the       *)
(* update is still present with its previous entry; addKeywordMapping,     *)
(* addIntentMapping and addStageConfiguration each change one key of one   *)
(* table (the lower-cased keyword, the intent, the stage) and leave the    *)
(* other two tables unchanged.                                             *)
(***************************************************************************)
C16_Tables == {"keywords", "intents", "stages"}

C16_TableOf(op) ==
    CASE op = "addKeywordMapping" -> "keywords"
      [] op = "addIntentMapping" -> "intents"
      [] op = "addStageConfiguration" -> "stages"

C16_Now == mappingConfig(cfgHeap, cfgRef, cfgLast.instance)

C16_Merged ==
    cfgLast.op = "updateMappingConfig" =>
        \A t \in C16_Tables :
            /\ \A k \in DOMAIN cfgLast.given[t] :
                  k \in DOMAIN C16_Now[t] /\ C16_Now[t][k] = cfgLast.given[t][k]
            /\ \A k \in DOMAIN cfgLast.before[t] \ DOMAIN cfgLast.given[t] :
                  k \in DOMAIN C16_Now[t] /\ C16_Now[t][k] = cfgLast.before[t][k]

C16_OneKey ==
    cfgLast.op \in {"addKeywordMapping", "addIntentMapping", "addStageConfiguration"} =>
        LET t == C16_TableOf(cfgLast.op)
            key == IF t = "keywords" THEN toLowerCase(cfgLast.key) ELSE cfgLast.key
        IN  /\ DOMAIN C16_Now[t] = DOMAIN cfgLast.before[t] \cup {key}
            /\ C16_Now[t][key] = cfgLast.given[t][cfgLast.key]
            /\ \A k \in DOMAIN cfgLast.before[t] \ {key} :
                  C16_Now[t][k] = cfgLast.before[t][k]
            /\ \A other \in C16_Tables \ {t} : C16_Now[other] = cfgLast.before[other]

C16_MergeAndFrame == C16_Merged /\ C16_OneKey

\* An update that replaces the entry of 'closing' and keeps the other stages
\* and the keyword an earlier addKeywordMapping added.
C16_Witness ==
    /\ cfgLast.op = "updateMappingConfig"
    /\ "closing" \in DOMAIN cfgLast.given.stages
    /\ cfgLast.before.stages["closing"] # cfgLast.given.stages["closing"]
    /\ C16_Now.stages["closing"] = cfgLast.given.stages["closing"]
    /\ C16_Now.stages["introduction"] = defaultMappingConfig.stages["introduction"]
    /\ "tablet" \in DOMAIN cfgLast.before.keywords
    /\ "tablet" \in DOMAIN C16_Now.keywords

(***************************************************************************)
(* The product catalog (Supabase table `products`) and the lookups         *)
(* ProductService makes on it.  Ratings are in tenths, prices in whole     *)
(* dollars.  `down` names the lookups that fail: a category, a search      *)
(* term, one of the direct queries, or "all".                              *)
(***************************************************************************)
Product(id, title, brand, category, price, rating, stock, discountPercentage, tags) ==
    [id |-> id, title |-> title, brand |-> brand, category |-> category,
     price |-> price, rating |-> rating, stock |-> stock,
     discountPercentage |-> discountPercentage, tags |-> tags]

ProductRows ==
    << Product(1, "iPhone 15", "Apple", "smartphones", 999, 48, 5, 5, {"smartphone"}),
       Product(2, "Galaxy Android Phone", "Samsung", "smartphones", 799, 46, 10, 12,
               {"smartphone", "android"}),
       Product(3, "Budget Smartphone", Undefined, "smartphones", 199, 41, 0, 15, {}),
       Product(4, "MacBook Laptop", "Apple", "laptops", 1199, 49, 3, 0, {"laptop"}),
       Product(5, "Gaming Laptop", "Asus", "laptops", 899, 45, 7, 20, {"gaming"}),
       Product(6, "iPad Tablet", "Apple", "tablets", 449, 47, 4, 8, {"tablet"}),
       Product(7, "Red Dress", Undefined, "womens-dresses", 59, 44, 12, 30, {"dress"}),
       Product(8, "Kitchen Table", "Ikea", "furniture", 249, 40, 2, 0, {}) >>

Catalogs == {ProductRows, SubSeq(ProductRows, 4, 5), <<>>}

FailureSets == {{}, {"all"}, {"laptops", "smartphones"}, {"laptop", "iphone", "popular"}}

LookupFails(down, key) == "all" \in down \/ (key # Undefined /\ key \in down)

\* Stable sort with a JavaScript comparator: x goes before the first element
\* it compares less than.
RECURSIVE InsertWith(_, _, _)
InsertWith(Cmp(_, _), x, sorted) ==
    IF sorted = <<>> THEN <<x>>
    ELSE IF Cmp(x, Head(sorted)) < 0 THEN <<x>> \o sorted
         ELSE <<Head(sorted)>> \o InsertWith(Cmp, x, Tail(sorted))

RECURSIVE SortFrom(_, _, _)
SortFrom(Cmp(_, _), rest, sorted) ==
    IF rest = <<>> THEN sorted
    ELSE With(InsertWith(Cmp, Head(rest), sorted),
              LAMBDA inserted : SortFrom(Cmp, Tail(rest), inserted))

sort(seq, Cmp(_, _)) == SortFrom(Cmp, seq, <<>>)

ByRatingDesc(a, b) == b.rating - a.rating

ByDiscountDesc(a, b) == b.discountPercentage - a.discountPercentage

\* title.ilike.%q% , brand.ilike.%q% , tags.cs.{q}
MatchesQuery(product, q) ==
    \/ includes(toLowerCase(product.title), toLowerCase(q))
    \/ product.brand # Undefined /\ includes(toLowerCase(product.brand), toLowerCase(q))
    \/ q \in product.tags

DefaultSearchLimit == 20

\* searchProducts({q, category, limit}): the rows or a thrown error.
searchProducts(catalog, down, q, category, limit) ==
    IF LookupFails(down, q) \/ LookupFails(down, category)
    THEN [threw |-> TRUE, products |-> <<>>]
    ELSE
        LET inCategory == IF Truthy(category)
                          THEN SelectSeq(catalog, LAMBDA p : p.category = category)
                          ELSE catalog
            matching == IF Truthy(q)
                        THEN SelectSeq(inCategory, LAMBDA p : MatchesQuery(p, q))
                        ELSE inCategory
            rows == IF limit = 0 THEN DefaultSearchLimit ELSE limit
        IN  [threw |-> FALSE, products |-> Take(sort(matching, ByRatingDesc), rows)]

PopularLimit == 4

PopularConfidence == 50

\* getPopularProducts, getTopRatedProducts(undefined, limit) and
\* getDiscountedProducts(minDiscount, limit) return [] on an error; `warned`
\* tells that the error was logged.
getPopularProducts(catalog, down) ==
    IF LookupFails(down, "popular") THEN [suggestions |-> <<>>, warned |-> TRUE]
    ELSE [suggestions |->
             With(Take(sort(catalog, ByRatingDesc), PopularLimit),
                  LAMBDA rows :
                     [i \in 1..Len(rows) |->
                         [product |-> rows[i], reason |-> "Popular choice",
                          confidence |-> PopularConfidence, type |-> "popular"]]),
          warned |-> FALSE]

getTopRatedProducts(catalog, down, limit) ==
    IF LookupFails(down, "top_rated") THEN [products |-> <<>>, warned |-> TRUE]
    ELSE [products |-> Take(sort(catalog, ByRatingDesc), limit), warned |-> FALSE]

getDiscountedProducts(catalog, down, minDiscount, limit) ==
    IF LookupFails(down, "discounted") THEN [products |-> <<>>, warned |-> TRUE]
    ELSE [products |->
             Take(sort(SelectSeq(catalog, LAMBDA p : p.discountPercentage >= minDiscount),
                       ByDiscountDesc), limit),
          warned |-> FALSE]

(***************************************************************************)
(* Budget bounds, as getContextualSuggestions and getProductsByKeywords    *)
(* derive them from budgetRange.                                           *)
(***************************************************************************)
RECURSIVE SplitOnFrom(_, _, _, _)
SplitOnFrom(s, sep, i, part) ==
    IF i > Len(s) THEN <<part>>
    ELSE IF CharAt(s, i) = sep THEN <<part>> \o SplitOnFrom(s, sep, i + 1, "")
         ELSE SplitOnFrom(s, sep, i + 1, part \o CharAt(s, i))

\* String.prototype.split(separator), separator a single character
splitOn(s, sep) == SplitOnFrom(s, sep, 1, "")

\* String.prototype.trim, for blanks
RECURSIVE trim(_)
trim(s) ==
    IF Len(s) > 0 /\ CharAt(s, 1) = " " THEN trim(SubSeq(s, 2, Len(s)))
    ELSE IF Len(s) > 0 /\ CharAt(s, Len(s)) = " " THEN trim(SubSeq(s, 1, Len(s) - 1))
    ELSE s

DigitValue(c) == CHOOSE d \in 0..9 : CharAt(Digits, d + 1) = c

RECURSIVE LeadingDigits(_, _, _)
LeadingDigits(s, i, value) ==
    IF i <= Len(s) /\ IsDigit(CharAt(s, i))
    THEN LeadingDigits(s, i + 1, 10 * value + DigitValue(CharAt(s, i)))
    ELSE [nan |-> i = 1, value |-> value]

\* does text w stand at position i of s
StandsAt(s, i, w) == i + Len(w) - 1 <= Len(s) /\ SubSeq(s, i, i + Len(w) - 1) = w

\* the position after the digits that start at position i
RECURSIVE SkipDigits(_, _)
SkipDigits(s, i) ==
    IF i <= Len(s) /\ IsDigit(CharAt(s, i)) THEN SkipDigits(s, i + 1) ELSE i

\* parseFloat on unsigned decimal text: the whole part and the fraction in
\* hundredths (exact for up to two fractional digits); NaN without a digit.
parseFloat(s) ==
    LET text == trim(s)
        dot == SkipDigits(text, 1)
        fractionEnd == IF StandsAt(text, dot, ".") THEN SkipDigits(text, dot + 1) ELSE dot
        fraction == SubSeq(text, dot + 1, Min(dot + 2, fractionEnd - 1))
    IN  [nan |-> dot = 1 /\ fractionEnd <= dot + 1,
         value |-> LeadingDigits(text, 1, 0).value,
         hundredths |-> IF Len(fraction) = 2 THEN LeadingDigits(fraction, 1, 0).value
                        ELSE IF Len(fraction) = 1
                        THEN 10 * LeadingDigits(fraction, 1, 0).value
                        ELSE 0]

\* let minPrice, maxPrice: each undefined until assigned.
NoBounds == [minDefined |-> FALSE, minPrice |-> 0, maxDefined |-> FALSE, maxPrice |-> 0]

Between(min, max) ==
    [minDefined |-> TRUE, minPrice |-> min, maxDefined |-> TRUE, maxPrice |-> max]

BudgetBounds(budgetRange) ==
    IF ~Truthy(budgetRange) THEN NoBounds
    ELSE IF includes(budgetRange, "-") /\ budgetRange # "budget-friendly"
              /\ budgetRange # "premium"
    THEN LET parts == splitOn(budgetRange, "-")
             min == parseFloat(parts[1])
             max == parseFloat(parts[2])
         IN  IF ~min.nan /\ ~max.nan THEN Between(min.value, max.value) ELSE NoBounds
    ELSE CASE budgetRange = "budget-friendly" -> [NoBounds EXCEPT !.maxDefined = TRUE, !.maxPrice = 300]
           [] budgetRange = "premium" -> [NoBounds EXCEPT !.minDefined = TRUE, !.minPrice = 800]
           [] budgetRange = "under-100" -> [NoBounds EXCEPT !.maxDefined = TRUE, !.maxPrice = 100]
           [] budgetRange = "100-300" -> Between(100, 300)
           [] budgetRange = "300-500" -> Between(300, 500)
           [] budgetRange = "500-1000" -> Between(500, 1000)
           [] budgetRange = "1000-2000" -> Between(1000, 2000)
           [] OTHER -> NoBounds

BudgetRanges == {Undefined, "500-1000", "budget-friendly", "under-100"}

BudgetBoundsTable == [b \in BudgetRanges |-> BudgetBounds(b)]

budgetBounds(budgetRange) ==
    IF budgetRange \in BudgetRanges THEN BudgetBoundsTable[budgetRange]
    ELSE BudgetBounds(budgetRange)

\* The two price filters.
InBudget(bounds, p) ==
    /\ ~bounds.minDefined \/ p.price >= bounds.minPrice
    /\ ~bounds.maxDefined \/ p.price <= bounds.maxPrice

Abs(n) == IF n < 0 THEN -n ELSE n

(***************************************************************************)
(* ProductService.getContextualSuggestions                                 *)
(***************************************************************************)
Pattern(patterns, searchTerms, brandFilter, categoryFilter, reason, confidence) ==
    [patterns |-> patterns, searchTerms |-> searchTerms, brandFilter |-> brandFilter,
     categoryFilter |-> categoryFilter, reason |-> reason, confidence |-> confidence]

productPatterns ==
    << Pattern({"iphone", "apple phone"}, <<"iphone">>, "Apple", "smartphones",
               "iPhone model as requested", 90),
       Pattern({"android", "samsung"}, <<"android", "samsung">>, Undefined, Undefined,
               "Android device as requested", 90),
       Pattern({"google pixel"}, <<"pixel">>, "Google", Undefined,
               "Google Pixel as requested", 90),
       Pattern({"laptop", "computer", "macbook"}, <<"laptop">>, Undefined, "laptops",
               "Computer device as requested", 90),
       Pattern({"tablet", "ipad"}, <<"tablet", "ipad">>, Undefined, Undefined,
               "Tablet device as requested", 90),
       Pattern({"camera", "photo", "photography"}, <<"camera", "smartphone">>, Undefined,
               Undefined, "Great for photography", 80),
       Pattern({"gaming", "games", "performance"}, <<"gaming", "laptop">>, Undefined,
               Undefined, "Excellent for gaming", 80) >>

HasBrand(p, brandFilter) ==
    p.brand # Undefined /\ toLowerCase(p.brand) = toLowerCase(brandFilter)

\* Twice the distance of a price from the middle of the budget.
MidDistance(bounds, p) == Abs(2 * p.price - (bounds.minPrice + bounds.maxPrice))

\* The comparator of the closest-alternatives sort.
ClosestToBudget(bounds, a, b) ==
    IF bounds.maxDefined /\ bounds.minDefined
    THEN MidDistance(bounds, a) - MidDistance(bounds, b)
    ELSE IF bounds.maxDefined
         THEN Abs(a.price - bounds.maxPrice) - Abs(b.price - bounds.maxPrice)
         ELSE a.price - b.price

\* The comparator of the final sort: in stock first, then rating when it
\* differs by more than 0.2, then price.
ByStockRatingPrice(bounds, a, b) ==
    IF a.stock > 0 /\ b.stock = 0 THEN -1
    ELSE IF a.stock = 0 /\ b.stock > 0 THEN 1
    ELSE IF Abs(a.rating - b.rating) > 2 THEN b.rating - a.rating
    ELSE IF bounds.minDefined /\ bounds.maxDefined
         THEN MidDistance(bounds, a) - MidDistance(bounds, b)
         ELSE a.price - b.price

BudgetReason(bounds, reason, p) ==
    IF ~(bounds.minDefined \/ bounds.maxDefined) THEN reason
    ELSE IF p.price < (IF bounds.minDefined THEN bounds.minPrice ELSE 0)
         THEN reason \o " (closest option below budget)"
    ELSE IF bounds.maxDefined /\ bounds.maxPrice # 0 /\ p.price > bounds.maxPrice
         THEN reason \o " (closest option above budget)"
    ELSE reason \o " within your budget"

Suggest(products, Reason(_), confidence, type) ==
    With(products,
         LAMBDA chosen :
            [i \in 1..Len(chosen) |->
                [product |-> chosen[i], reason |-> Reason(chosen[i]),
                 confidence |-> confidence, type |-> type]])

\* One pass of the loop over a rule's search terms (the body of its try).
ContextualForTerm(catalog, down, pattern, searchTerm, bounds) ==
    LET results == searchProducts(catalog, down, searchTerm, pattern.categoryFilter, 10)
        ofBrand == IF pattern.brandFilter # Undefined
                   THEN SelectSeq(results.products,
                                  LAMBDA p : HasBrand(p, pattern.brandFilter))
                   ELSE results.products
        inBudget == SelectSeq(ofBrand, LAMBDA p : InBudget(bounds, p))
        allProducts == SelectSeq(results.products,
                          LAMBDA p : HasBrand(p, pattern.brandFilter) /\ p.stock > 0)
        filteredProducts ==
            IF Len(inBudget) = 0 /\ pattern.brandFilter # Undefined /\ Len(allProducts) > 0
            THEN Take(sort(allProducts, LAMBDA a, b : ClosestToBudget(bounds, a, b)), 2)
            ELSE inBudget
        chosen == Take(sort(filteredProducts,
                            LAMBDA a, b : ByStockRatingPrice(bounds, a, b)), 3)
        main == Suggest(chosen, LAMBDA p : BudgetReason(bounds, pattern.reason, p),
                        pattern.confidence, "contextual")
        wantsAlternatives ==
            searchTerm = "iphone" /\ bounds.minDefined /\ bounds.maxDefined
        alternatives == searchProducts(catalog, down, Undefined, "smartphones", 10)
        budgetAlternatives ==
            Take(sort(SelectSeq(alternatives.products,
                                LAMBDA p : /\ p.price >= bounds.minPrice
                                           /\ p.price <= bounds.maxPrice
                                           /\ p.stock > 0),
                      ByRatingDesc), 3)
    IN  IF results.threw THEN [suggestions |-> <<>>, warned |-> TRUE]
        ELSE IF ~wantsAlternatives THEN [suggestions |-> main, warned |-> FALSE]
        ELSE IF alternatives.threw THEN [suggestions |-> main, warned |-> TRUE]
        ELSE [suggestions |->
                 main \o Suggest(budgetAlternatives,
                                 LAMBDA p : "Alternative smartphone within your budget",
                                 70, "contextual"),
              warned |-> FALSE]

RECURSIVE ContextualForTerms(_, _, _, _, _)
ContextualForTerms(catalog, down, pattern, searchTerms, bounds) ==
    IF searchTerms = <<>> THEN [suggestions |-> <<>>, warned |-> FALSE]
    ELSE LET first == ContextualForTerm(catalog, down, pattern, Head(searchTerms), bounds)
             rest == ContextualForTerms(catalog, down, pattern, Tail(searchTerms), bounds)
         IN  [suggestions |-> first.suggestions \o rest.suggestions,
              warned |-> first.warned \/ rest.warned]

MatchesPattern(pattern, lowerMessage) == \E p \in pattern.patterns : includes(lowerMessage, p)

\* A variant without the break: every matching rule is applied, in list order.
RECURSIVE ContextualForRules(_, _, _, _, _)
ContextualForRules(catalog, down, lowerMessage, bounds, i) ==
    IF i > Len(productPatterns) THEN [suggestions |-> <<>>, warned |-> FALSE]
    ELSE LET rest == ContextualForRules(catalog, down, lowerMessage, bounds, i + 1)
             this == ContextualForTerms(catalog, down, productPatterns[i],
                                        Take(productPatterns[i].searchTerms, 2), bounds)
         IN  IF MatchesPattern(productPatterns[i], lowerMessage)
             THEN [suggestions |-> this.suggestions \o rest.suggestions,
                   warned |-> this.warned \/ rest.warned]
             ELSE rest

getContextualSuggestionsAllRules(catalog, down, userMessage, budgetRange) ==
    ContextualForRules(catalog, down, toLowerCase(userMessage),
                       budgetBounds(budgetRange), 1)

getContextualSuggestions(catalog, down, userMessage, budgetRange) ==
    LET lowerMessage == toLowerCase(userMessage)
        matching == {i \in DOMAIN productPatterns :
                        MatchesPattern(productPatterns[i], lowerMessage)}
    IN  IF matching = {} THEN [suggestions |-> <<>>, warned |-> FALSE]
        ELSE LET first == CHOOSE i \in matching : \A j \in matching : i <= j
             IN  ContextualForTerms(catalog, down, productPatterns[first],
                                    Take(productPatterns[first].searchTerms, 2),
                                    budgetBounds(budgetRange))

(***************************************************************************)
(* ProductService.getProductsByKeywords                                    *)
(***************************************************************************)
\* Budget filter, in-stock filter, sort by rating, slice(0, 2).
BestInBudget(products, bounds) ==
    Take(sort(SelectSeq(products,
                        LAMBDA p : InBudget(bounds, p) /\ p.stock > 0),
              ByRatingDesc), 2)

KeywordReason(prefix, keyword, bounds) ==
    prefix \o "\"" \o keyword \o "\""
        \o (IF bounds.minDefined \/ bounds.maxDefined THEN " within your budget" ELSE "")

\* The loop over a mapped keyword's search terms; a failing search leaves
\* the loop and the keyword (the keyword's catch), keeping what was pushed.
RECURSIVE KeywordSearchTerms(_, _, _, _, _, _)
KeywordSearchTerms(catalog, down, keyword, searchTerms, bounds, acc) ==
    IF searchTerms = <<>> THEN acc
    ELSE LET result == searchProducts(catalog, down, Head(searchTerms), Undefined, 10)
             found == Suggest(BestInBudget(result.products, bounds),
                              LAMBDA p : KeywordReason("Related to ", keyword, bounds),
                              80, "keyword")
         IN  IF result.threw THEN [acc EXCEPT !.warned = TRUE]
             ELSE KeywordSearchTerms(catalog, down, keyword, Tail(searchTerms), bounds,
                                     [acc EXCEPT !.suggestions = @ \o found])

\* A keyword with a mapping entry: the first category, then the search terms
\* when nothing has been collected so far or the entry has no categories.
KeywordMapped(catalog, down, keywordConfig, keyword, bounds, acc) ==
    LET hasCategories == keywordConfig.categories # UndefinedList
                            /\ Len(keywordConfig.categories) > 0
        result == searchProducts(catalog, down, Undefined, keywordConfig.categories[1], 10)
        found == Suggest(BestInBudget(result.products, bounds),
                         LAMBDA p : KeywordReason("Matches your interest in ", keyword,
                                                  bounds),
                         85, "keyword")
        afterCategory == IF hasCategories
                         THEN [acc EXCEPT !.suggestions = @ \o found]
                         ELSE acc
    IN  IF hasCategories /\ result.threw THEN [acc EXCEPT !.warned = TRUE]
        ELSE IF /\ (Len(afterCategory.suggestions) = 0
                       \/ keywordConfig.categories = UndefinedList)
                /\ Len(keywordConfig.searchTerms) > 0
             THEN KeywordSearchTerms(catalog, down, keyword,
                                     Take(keywordConfig.searchTerms, 2), bounds,
                                     afterCategory)
             ELSE afterCategory

KeywordUnmapped(catalog, down, keyword, bounds, acc) ==
    LET result == searchProducts(catalog, down, keyword, Undefined, 10)
        found == Suggest(BestInBudget(result.products, bounds),
                         LAMBDA p : KeywordReason("Matches ", keyword, bounds),
                         70, "keyword")
    IN  IF result.threw THEN [acc EXCEPT !.warned = TRUE]
        ELSE [acc EXCEPT !.suggestions = @ \o found]

\* One pass of the loop over the keywords (the body of its try and its catch).
KeywordPass(catalog, down, config, keyword, bounds, acc) ==
    LET lowerKeyword == toLowerCase(keyword)
    IN  IF lowerKeyword \in DOMAIN config.keywords
        THEN KeywordMapped(catalog, down, config.keywords[lowerKeyword], keyword, bounds, acc)
        ELSE KeywordUnmapped(catalog, down, keyword, bounds, acc)

RECURSIVE KeywordPasses(_, _, _, _, _, _)
KeywordPasses(catalog, down, config, keywords, bounds, acc) ==
    IF keywords = <<>> THEN acc
    ELSE With(KeywordPass(catalog, down, config, Head(keywords), bounds, acc),
              LAMBDA pushed :
                 KeywordPasses(catalog, down, config, Tail(keywords), bounds, pushed))

\* A variant without the catch around a keyword: the failure leaves the method.
getProductsByKeywordsUncaught(catalog, down, config, keywords, budgetRange) ==
    LET out == KeywordPasses(catalog, down, config, Take(keywords, 3),
                             budgetBounds(budgetRange),
                             [suggestions |-> <<>>, warned |-> FALSE])
    IN  [suggestions |-> out.suggestions, warned |-> out.warned, threw |-> out.warned]

getProductsByKeywords(catalog, down, config, keywords, budgetRange) ==
    LET out == KeywordPasses(catalog, down, config, Take(keywords, 3),
                             budgetBounds(budgetRange),
                             [suggestions |-> <<>>, warned |-> FALSE])
    IN  [suggestions |-> out.suggestions, warned |-> out.warned, threw |-> FALSE]

(***************************************************************************)
(* ProductService.getProductsByIntent                                      *)
(***************************************************************************)
RECURSIVE ReplaceUnderscores(_)
ReplaceUnderscores(s) ==
    IF s = "" THEN ""
    ELSE (IF CharAt(s, 1) = "_" THEN " " ELSE CharAt(s, 1))
            \o ReplaceUnderscores(SubSeq(s, 2, Len(s)))

\* One of the loops over categories or search terms, each lookup in its own
\* try: a failing lookup is logged and the loop goes on.
RECURSIVE IntentLookups(_, _, _, _, _, _)
IntentLookups(catalog, down, keys, byCategory, reason, confidence) ==
    IF keys = <<>> THEN [suggestions |-> <<>>, warned |-> FALSE]
    ELSE LET result == IF byCategory
                       THEN searchProducts(catalog, down, Undefined, Head(keys), 2)
                       ELSE searchProducts(catalog, down, Head(keys), Undefined, 2)
             found == Suggest(result.products, LAMBDA p : reason, confidence, "intent")
             rest == IntentLookups(catalog, down, Tail(keys), byCategory, reason, confidence)
         IN  [suggestions |-> (IF result.threw THEN <<>> ELSE found) \o rest.suggestions,
              warned |-> result.threw \/ rest.warned]

\* confidence * 0.8, in hundredths
FallbackConfidence(confidence) == (confidence * 4) \div 5

getProductsByIntent(catalog, down, config, intent) ==
    IF intent \notin DOMAIN config.intents
    THEN [suggestions |-> <<>>, warned |-> FALSE, threw |-> FALSE]
    ELSE
        LET intentInfo == config.intents[intent]
            spoken == ReplaceUnderscores(intent)
            hasTerms == intentInfo.searchTerms # UndefinedList
                           /\ Len(intentInfo.searchTerms) > 0
            byCategory == IntentLookups(catalog, down, Take(intentInfo.categories, 2), TRUE,
                                        "Recommended for " \o spoken, intentInfo.confidence)
            fallback == IntentLookups(catalog, down, Take(intentInfo.searchTerms, 2), FALSE,
                                      "Related to " \o spoken,
                                      FallbackConfidence(intentInfo.confidence))
            byTerm == IntentLookups(catalog, down, Take(intentInfo.searchTerms, 2), FALSE,
                                    "Recommended for " \o spoken, intentInfo.confidence)
            out == IF intentInfo.priority = "category" /\ Len(intentInfo.categories) > 0
                   THEN IF Len(byCategory.suggestions) = 0 /\ hasTerms
                        THEN [suggestions |-> fallback.suggestions,
                              warned |-> byCategory.warned \/ fallback.warned]
                        ELSE byCategory
                   ELSE IF hasTerms THEN byTerm
                   ELSE [suggestions |-> <<>>, warned |-> FALSE]
        IN  [suggestions |-> out.suggestions, warned |-> out.warned, threw |-> FALSE]

(***************************************************************************)
(* ProductService.getProductsByStage                                       *)
(***************************************************************************)
CeilDiv(n, d) == (n + d - 1) \div d

StageStampSkipped(suggestions, stageConfig) == suggestions

\* suggestions.forEach: reason and confidence of the stage configuration.
StageStamp(suggestions, stageConfig) ==
    [i \in 1..Len(suggestions) |->
        [suggestions[i] EXCEPT !.reason = stageConfig.reason,
                               !.confidence = stageConfig.confidence]]

AsStage(products, stageConfig) ==
    Suggest(products, LAMBDA p : stageConfig.reason, stageConfig.confidence, "stage")

Retyped(suggestions, type) ==
    [i \in 1..Len(suggestions) |-> [suggestions[i] EXCEPT !.type = type]]

StageCollected(catalog, down, stageConfig) ==
    LET limit == stageConfig.limit
        popular == getPopularProducts(catalog, down)
        mixLimit == CeilDiv(limit, 3)
    IN  CASE stageConfig.strategy = "popular" ->
                [suggestions |-> Take(popular.suggestions, limit), warned |-> popular.warned]
          [] stageConfig.strategy = "top_rated" ->
                LET top == getTopRatedProducts(catalog, down, limit)
                IN  [suggestions |-> AsStage(top.products, stageConfig),
                     warned |-> top.warned]
          [] stageConfig.strategy = "discounted" ->
                LET disc == getDiscountedProducts(catalog, down, 10, limit)
                IN  [suggestions |-> AsStage(disc.products, stageConfig),
                     warned |-> disc.warned]
          [] stageConfig.strategy = "featured" ->
                LET top == getTopRatedProducts(catalog, down, CeilDiv(limit, 2))
                    remainingSlots == limit - Len(top.products)
                IN  [suggestions |->
                        AsStage(top.products, stageConfig)
                           \o Retyped(Take(popular.suggestions, remainingSlots), "stage"),
                     warned |-> top.warned \/ popular.warned]
          [] stageConfig.strategy = "mixed" ->
                LET top == getTopRatedProducts(catalog, down, mixLimit)
                    disc == getDiscountedProducts(catalog, down, 5, mixLimit)
                IN  [suggestions |->
                        Retyped(Take(popular.suggestions, mixLimit), "stage")
                           \o AsStage(top.products, stageConfig)
                           \o AsStage(disc.products, stageConfig),
                     warned |-> popular.warned \/ top.warned \/ disc.warned]
          [] OTHER -> [suggestions |-> <<>>, warned |-> FALSE]

getProductsByStage(catalog, down, config, stage) ==
    IF stage \notin DOMAIN config.stages
    THEN [suggestions |-> <<>>, warned |-> FALSE, threw |-> FALSE]
    ELSE LET stageConfig == config.stages[stage]
             collected == StageCollected(catalog, down, stageConfig)
         IN  [suggestions |->
                 Take(StageStamp(collected.suggestions, stageConfig), stageConfig.limit),
              warned |-> collected.warned, threw |-> FALSE]

(***************************************************************************)
(* ProductService.deduplicateSuggestions and generateSmartSuggestions      *)
(***************************************************************************)
ByConfidenceDesc(a, b) == b.confidence - a.confidence

RECURSIVE FirstPerProduct(_, _)
FirstPerProduct(suggestions, seen) ==
    IF suggestions = <<>> THEN <<>>
    ELSE IF Head(suggestions).product.id \in seen
         THEN FirstPerProduct(Tail(suggestions), seen)
         ELSE <<Head(suggestions)>>
                 \o FirstPerProduct(Tail(suggestions),
                                    seen \cup {Head(suggestions).product.id})

\* A variant that keeps the first entry of each product without sorting.
deduplicateSuggestionsUnsorted(suggestions) == FirstPerProduct(suggestions, {})

\* A variant that sorts but keeps every entry.
deduplicateSuggestionsKeepingAll(suggestions) == sort(suggestions, ByConfidenceDesc)

\* A variant that sorts by confidence ascending before keeping the first
\* entry of each product.
ByConfidenceAsc(a, b) == a.confidence - b.confidence

deduplicateSuggestionsAscending(suggestions) ==
    FirstPerProduct(sort(suggestions, ByConfidenceAsc), {})

deduplicateSuggestions(suggestions) ==
    FirstPerProduct(sort(suggestions, ByConfidenceDesc), {})

MaxSuggestions == 5

NotRun == [suggestions |-> <<>>, warned |-> FALSE, threw |-> FALSE]

HasKeywords(context) ==
    context.keywords # UndefinedList /\ Len(context.keywords) > 0

\* The condition of the topic-change branch.
TopicFlow(context) == context.isTopicChange /\ HasKeywords(context)

\* Which of the first four strategies the method calls.
Runs(context) ==
    [contextual |-> Truthy(context.userMessage),
     keyword |-> HasKeywords(context),
     intent |-> Truthy(context.userIntent),
     stage |-> ~TopicFlow(context) /\ Truthy(context.conversationStage)]

FirstFour(catalog, down, config, context) ==
    [contextual |->
        IF Runs(context).contextual
        THEN getContextualSuggestions(catalog, down, context.userMessage,
                                      context.budgetRange) @@ [threw |-> FALSE]
        ELSE NotRun,
     keyword |->
        IF Runs(context).keyword
        THEN getProductsByKeywords(catalog, down, config, context.keywords,
                                   context.budgetRange)
        ELSE NotRun,
     intent |->
        IF Runs(context).intent
        THEN getProductsByIntent(catalog, down, config, context.userIntent)
        ELSE NotRun,
     stage |->
        IF Runs(context).stage
        THEN getProductsByStage(catalog, down, config, context.conversationStage)
        ELSE NotRun]

BeforeFallback(by) ==
    by.contextual.suggestions \o by.keyword.suggestions \o by.intent.suggestions
        \o by.stage.suggestions

\* A variant whose normal flow always adds the popular products.
RunsPopularAlways(context, by) == ~TopicFlow(context)

\* 5. Fallback: popular products when nothing was collected (normal flow only).
RunsPopular(context, by) == ~TopicFlow(context) /\ Len(BeforeFallback(by)) = 0

WithFallback(catalog, down, context, four) ==
    four @@ [popular |-> IF RunsPopular(context, four)
                         THEN getPopularProducts(catalog, down) @@ [threw |-> FALSE]
                         ELSE NotRun]

\* `ran` names the strategies the method called, `warned` the ones that logged
\* a failed lookup, `by` what each pushed, `collected` the list before
\* deduplication and `result` what the method returns ([] from its catch).
Merged(context, by) ==
    LET caught == \E name \in DOMAIN by : by[name].threw
        collected == BeforeFallback(by) \o by.popular.suggestions
    IN  [ran |-> {name \in DOMAIN Runs(context) : Runs(context)[name]}
                    \cup (IF RunsPopular(context, by) THEN {"popular"} ELSE {}),
         warned |-> {name \in DOMAIN by : by[name].warned},
         by |-> [name \in DOMAIN by |-> by[name].suggestions],
         collected |-> IF caught THEN <<>> ELSE collected,
         caught |-> caught,
         threw |-> FALSE,
         result |-> IF caught THEN <<>>
                    ELSE Take(deduplicateSuggestions(collected), MaxSuggestions)]

generateSmartSuggestions(catalog, down, config, context) ==
    With(FirstFour(catalog, down, config, context),
         LAMBDA four :
            With(WithFallback(catalog, down, context, four),
                 LAMBDA by : Merged(context, by)))

\* AgentService.generateSmartSuggestions: the product service's list, [] from
\* its catch; `service` is what the product service did.
agentGenerateSmartSuggestions(catalog, down, config, context) ==
    With(generateSmartSuggestions(catalog, down, config, context),
         LAMBDA out : [suggestions |-> IF out.threw THEN <<>> ELSE out.result,
                       threw |-> FALSE,
                       service |-> out])

(***************************************************************************)
(* Suggestion generation on a ProductService built with or without a       *)
(* mapping configuration argument, over a catalog, with failing lookups.   *)
(***************************************************************************)
\* new ProductService(mappingConfig): { ...defaultMappingConfig, ...mappingConfig }
ConstructorArgs ==
    {[given |-> {}, tables |-> NoTables],
     [given |-> {"keywords"},
      tables |-> [NoTables EXCEPT
                     !.keywords = [k \in {"tablet", "laptop"} |->
                                      IF k = "tablet"
                                      THEN [searchTerms |-> <<"tablet", "ipad">>,
                                            categories |-> UndefinedList,
                                            priority |-> 1]
                                      ELSE [searchTerms |-> <<>>,
                                            categories |-> <<"laptops", "tablets">>,
                                            priority |-> -1]]]],
     [given |-> {"intents", "stages"},
      tables |-> [NoTables EXCEPT
                     !.intents = "general_product_inquiry" :>
                                    [categories |-> <<"tablets", "furniture", "laptops">>,
                                     searchTerms |-> <<"dress">>,
                                     priority |-> "category", confidence |-> -10],
                     !.stages = [k \in {"introduction", "closing"} |->
                                    IF k = "introduction"
                                    THEN [strategy |-> "mixed",
                                          reason |-> "Hand-picked for you",
                                          confidence |-> 95, limit |-> 6]
                                    ELSE [strategy |-> "featured", reason |-> "",
                                          confidence |-> -50, limit |-> 5]]]]}

ConstructedWith(i, arg) ==
    [constructed |-> TRUE,
     keywords |-> IF "keywords" \in arg.given THEN OwnTables(i) ELSE "default",
     intents |-> IF "intents" \in arg.given THEN OwnTables(i) ELSE "default",
     stages |-> IF "stages" \in arg.given THEN OwnTables(i) ELSE "default"]

SuggestMessages == {Undefined, "I need a Laptop", "best iphone camera"}

SuggestKeywords == {UndefinedList, <<>>, <<"Tablet", "laptop", "phone", "dress">>}

SuggestIntents == {Undefined, "laptop_recommendation", "general_product_inquiry"}

SuggestStages == {Undefined, "introduction", "closing"}

SuggestBudgets == {Undefined, "500-1000"}

NoSuggestCall ==
    [called |-> FALSE, down |-> {},
     context |-> [userMessage |-> Undefined, keywords |-> UndefinedList,
                  userIntent |-> Undefined, conversationStage |-> Undefined,
                  budgetRange |-> Undefined, isTopicChange |-> FALSE]]

NoSuggestOut ==
    [suggestions |-> <<>>, threw |-> FALSE,
     service |->
        [ran |-> {}, warned |-> {}, collected |-> <<>>, caught |-> FALSE,
         threw |-> FALSE, result |-> <<>>,
         by |-> [name \in {"contextual", "keyword", "intent", "stage", "popular"} |->
                    <<>>]]]

SuggestIdle ==
    /\ sCatalog = <<>>
    /\ sCall = NoSuggestCall
    /\ sOut = NoSuggestOut

SuggestStart ==
    /\ sCatalog \in Catalogs
    /\ sCall = NoSuggestCall
    /\ sOut = NoSuggestOut
    /\ \E arg \in ConstructorArgs :
          /\ cfgHeap = [o \in TableOwners |->
                           IF o = "default" THEN defaultMappingConfig
                           ELSE IF o = OwnTables(1) THEN arg.tables ELSE NoTables]
          /\ cfgRef = [i \in Instances |->
                          IF i = 1 THEN ConstructedWith(1, arg) ELSE NotConstructed]
    /\ cfgLast = NoMutation
    /\ cfgOps = 0

\* AgentService.generateSmartSuggestions(context), which calls
\* productService.generateSmartSuggestions(context), some lookups failing.
\* The method keeps nothing between calls, so one call per run covers it.
SuggestGenerate(context, down) ==
    /\ ~sCall.called
    /\ sCall' = [called |-> TRUE, down |-> down, context |-> context]
    /\ sOut' = agentGenerateSmartSuggestions(sCatalog, down,
                                             mappingConfig(cfgHeap, cfgRef, 1), context)
    /\ UNCHANGED <<sCatalog, configVars>>

SuggestStep ==
    \E userMessage \in SuggestMessages, keywords \in SuggestKeywords,
       userIntent \in SuggestIntents, conversationStage \in SuggestStages,
       budgetRange \in SuggestBudgets, isTopicChange \in BOOLEAN, down \in FailureSets :
        SuggestGenerate([userMessage |-> userMessage, keywords |-> keywords,
                         userIntent |-> userIntent,
                         conversationStage |-> conversationStage,
                         budgetRange |-> budgetRange, isTopicChange |-> isTopicChange],
                        down)

(***************************************************************************)
(* C1: the list generateSmartSuggestions returns has no two entries with   *)
(* the same product id and at most 5 entries, whatever the context, the    *)
(* mapping configuration, the catalog and the failing lookups.             *)
(***************************************************************************)
C1_UniqueAndCapped ==
    sCall.called =>
        /\ Len(sOut.service.result) <= 5
        /\ \A i, j \in DOMAIN sOut.service.result :
              sOut.service.result[i].product.id = sOut.service.result[j].product.id => i = j

\* Strategies collected more than five distinct products, some of them twice,
\* and five came back.
C1_Witness ==
    /\ sCall.called
    /\ Len(sOut.service.result) = 5
    /\ Cardinality({sOut.service.collected[i].product.id : i \in DOMAIN sOut.service.collected}) > 5
    /\ \E i, j \in DOMAIN sOut.service.collected :
          i # j /\ sOut.service.collected[i].product.id = sOut.service.collected[j].product.id

(***************************************************************************)
(* C4: when generateSmartSuggestions is called with isTopicChange = true,  *)
(* only the contextual, keyword and intent strategies run; the stage       *)
(* strategy and the popular fallback are not invoked and contribute no     *)
(* suggestion, whatever the other context fields are (an empty or missing  *)
(* keyword list included).                                                 *)
(***************************************************************************)
C4_TopicChangeSkipsStageAndPopular ==
    (sCall.called /\ sCall.context.isTopicChange) =>
        /\ sOut.service.ran \subseteq {"contextual", "keyword", "intent"}
        /\ sOut.service.by.stage = <<>>
        /\ sOut.service.by.popular = <<>>
        /\ \A i \in DOMAIN sOut.service.result :
              sOut.service.result[i].type \notin {"stage", "popular"}

(***************************************************************************)
(* C6: a failing catalog lookup never aborts suggestion generation: the    *)
(* method's catch is never reached and nothing is thrown, what a strategy  *)
(* without a failed lookup pushes is what it pushes on a healthy catalog   *)
(* and survives into the result (by product id, unless five entries of at  *)
(* least its confidence fill the list), every lookup failing gives the     *)
(* empty list, and the agent's wrapper hands the list on without failing.  *)
(***************************************************************************)
C6_Healthy(name) ==
    LET config == mappingConfig(cfgHeap, cfgRef, 1)
        context == sCall.context
    IN  CASE name = "contextual" ->
                getContextualSuggestions(sCatalog, {}, context.userMessage,
                                         context.budgetRange).suggestions
          [] name = "keyword" ->
                getProductsByKeywords(sCatalog, {}, config, context.keywords,
                                      context.budgetRange).suggestions
          [] name = "intent" ->
                getProductsByIntent(sCatalog, {}, config, context.userIntent).suggestions
          [] name = "stage" ->
                getProductsByStage(sCatalog, {}, config,
                                   context.conversationStage).suggestions
          [] name = "popular" -> getPopularProducts(sCatalog, {}).suggestions

C6_Survives(suggestion, result) ==
    \/ \E i \in DOMAIN result :
          /\ result[i].product.id = suggestion.product.id
          /\ result[i].confidence >= suggestion.confidence
    \/ /\ Len(result) = 5
       /\ \A i \in DOMAIN result : result[i].confidence >= suggestion.confidence

C6_LookupFailuresContained ==
    sCall.called =>
        /\ ~sOut.service.caught
        /\ ~sOut.service.threw
        /\ ~sOut.threw
        /\ sOut.suggestions = sOut.service.result
        /\ \A name \in sOut.service.ran \ sOut.service.warned :
              /\ sOut.service.by[name] = C6_Healthy(name)
              /\ \A i \in DOMAIN sOut.service.by[name] :
                    C6_Survives(sOut.service.by[name][i], sOut.service.result)
        /\ ("all" \in sCall.down => sOut.service.result = <<>>)

\* Some lookups failed in one strategy while another strategy, untouched,
\* contributed to the result.
C6_Witness ==
    /\ sCall.called
    /\ "all" \notin sCall.down
    /\ sOut.service.warned # {}
    /\ \E name \in sOut.service.ran \ sOut.service.warned :
          /\ sOut.service.by[name] # <<>>
          /\ \E i \in DOMAIN sOut.suggestions :
                sOut.suggestions[i].product.id = sOut.service.by[name][1].product.id

(***************************************************************************)
(* PromptService.extractContextFromMessage of the shopping assistant: the  *)
(* intent, shopping intent and budget range read from a message.           *)
(***************************************************************************)
\* The if-chain of classifyIntent: the cues of each branch, in source order;
\* `whole` are the alternatives of /^(hello|hi|hey)$/.
intentChain ==
    << [cues |-> {"buy", "purchase", "order", "get"}, whole |-> {},
        intent |-> "purchase_intent"],
       [cues |-> {"compare", "vs", "difference", "better"}, whole |-> {},
        intent |-> "comparison_request"],
       [cues |-> {"recommend", "suggest", "best", "need"}, whole |-> {},
        intent |-> "product_recommendation"],
       [cues |-> {"price", "cost", "budget", "expensive"}, whole |-> {},
        intent |-> "pricing_inquiry"],
       [cues |-> {"feature", "spec", "how does", "what can"}, whole |-> {},
        intent |-> "feature_inquiry"],
       [cues |-> {"review", "rating", "quality", "good"}, whole |-> {},
        intent |-> "review_inquiry"],
       [cues |-> {"available", "stock", "inventory", "in stock"}, whole |-> {},
        intent |-> "availability_inquiry"],
       [cues |-> {"shipping", "delivery", "return", "warranty"}, whole |-> {},
        intent |-> "service_inquiry"],
       [cues |-> {"hello", "hi"}, whole |-> {"hello", "hi", "hey"},
        intent |-> "greeting"],
       [cues |-> {"help", "assistance", "support"}, whole |-> {},
        intent |-> "help_request"] >>

\* lowerMessage.includes(a) || lowerMessage.includes(b) || ...
includesAny(lowerMessage, cues) == \E cue \in cues : includes(lowerMessage, cue)

classifyIntent(message) ==
    LET lowerMessage == toLowerCase(message)
        taken == {i \in DOMAIN intentChain :
                     \/ includesAny(lowerMessage, intentChain[i].cues)
                     \/ lowerMessage \in intentChain[i].whole}
    IN  IF trim(message) = "" THEN "unknown"
        ELSE IF taken = {} THEN "general_inquiry"
        ELSE intentChain[Least(taken)].intent

classifyShoppingIntent(message) ==
    LET lowerMessage == toLowerCase(message)
    IN  IF includesAny(lowerMessage, {"buy", "purchase", "order", "checkout"})
        THEN "buying"
        ELSE IF includesAny(lowerMessage, {"compare", "vs", "versus", "difference"})
        THEN "comparing"
        ELSE IF includesAny(lowerMessage, {"help", "support", "question", "return",
                                           "shipping", "warranty"})
        THEN "support"
        ELSE "browsing"

(***************************************************************************)
(* extractBudgetRange.  A regular expression is a sequence of pieces: a    *)
(* text, \s* (blanks), the captured amount (\d+(?:,\d{3})*(?:\.\d{2})?),   *)
(* or a choice between sub-expressions tried in order ((?:a|b); with an    *)
(* empty last alternative (?:a|b)? and \$?).  The expressions carry the i  *)
(* flag and are matched against the lower-cased message.  Blanks and the   *)
(* amount are taken greedily: in these expressions nothing that follows    *)
(* them can start with a character they accept, so giving characters back  *)
(* never turns a failure into a match.  Positions are 1-based.             *)
(***************************************************************************)
Text(text) == [kind |-> "text", text |-> text, choices |-> <<>>]

Blanks == [kind |-> "blanks", text |-> "", choices |-> <<>>]

Amount == [kind |-> "amount", text |-> "", choices |-> <<>>]

Either(choices) == [kind |-> "choice", text |-> "", choices |-> choices]

\* \$?
OptionalDollar == Either(<< <<Text("$")>>, <<>> >>)

budgetPatterns ==
    << <<Text("under"), Blanks, OptionalDollar, Amount>>,
       <<Text("below"), Blanks, OptionalDollar, Amount>>,
       <<Text("maximum"), Blanks, OptionalDollar, Amount>>,
       <<Text("budget"), Blanks, Either(<< <<Text("of")>>, <<Text("is")>>, <<>> >>),
         Blanks, OptionalDollar, Amount>>,
       <<Text("around"), Blanks, OptionalDollar, Amount>>,
       <<Text("about"), Blanks, OptionalDollar, Amount>>,
       <<Text("$"), Amount, Blanks,
         Either(<< <<Text("or"), Blanks, Text("less")>>, <<Text("max")>>,
                   <<Text("maximum")>> >>)>> >>

rangePattern ==
    <<OptionalDollar, Amount, Blanks, Either(<< <<Text("to")>>, <<Text("-")>> >>),
      Blanks, OptionalDollar, Amount>>

\* the position after the blanks that start at position i
RECURSIVE SkipBlanks(_, _)
SkipBlanks(s, i) == IF StandsAt(s, i, " ") THEN SkipBlanks(s, i + 1) ELSE i

\* (?:,\d{3})* from position i
RECURSIVE SkipThousands(_, _)
SkipThousands(s, i) ==
    IF StandsAt(s, i, ",") /\ SkipDigits(s, i + 1) >= i + 4
    THEN SkipThousands(s, i + 4)
    ELSE i

\* (?:\.\d{2})? from position i
SkipCents(s, i) ==
    IF StandsAt(s, i, ".") /\ SkipDigits(s, i + 1) >= i + 3 THEN i + 3 ELSE i

\* The position after the amount that starts at position i; i when no digit
\* stands there.
AmountEnd(s, i) ==
    IF SkipDigits(s, i) = i THEN i ELSE SkipCents(s, SkipThousands(s, SkipDigits(s, i)))

\* The ways the pieces match s from position i on, each as the list of its
\* captures, in the order the engine tries them.
RECURSIVE Matches(_, _, _, _)
Matches(s, i, pieces, captures) ==
    IF Len(pieces) = 0 THEN <<captures>>
    ELSE CASE pieces[1].kind = "text" ->
                IF StandsAt(s, i, pieces[1].text)
                THEN Matches(s, i + Len(pieces[1].text), Tail(pieces), captures)
                ELSE <<>>
           [] pieces[1].kind = "blanks" ->
                With(SkipBlanks(s, i),
                     LAMBDA next : Matches(s, next, Tail(pieces), captures))
           [] pieces[1].kind = "amount" ->
                With(AmountEnd(s, i),
                     LAMBDA end :
                        IF end = i THEN <<>>
                        ELSE Matches(s, end, Tail(pieces),
                                     Append(captures, SubSeq(s, i, end - 1))))
           [] pieces[1].kind = "choice" ->
                IF Len(pieces[1].choices) = 0 THEN <<>>
                ELSE Matches(s, i, pieces[1].choices[1] \o Tail(pieces), captures)
                        \o Matches(s, i, <<Either(Tail(pieces[1].choices))>>
                                             \o Tail(pieces), captures)

\* message.match(pattern): the captures of the leftmost match, <<>> for null
RECURSIVE match(_, _, _)
match(s, pattern, i) ==
    IF i > Len(s) THEN <<>>
    ELSE With(Matches(s, i, pattern, <<>>),
              LAMBDA found : IF Len(found) > 0 THEN found[1]
                             ELSE match(s, pattern, i + 1))

\* String.prototype.replace(',', ''): the first comma only
RemoveFirstComma(s) ==
    IF ~includes(s, ",") THEN s
    ELSE LET i == Least({i \in 1..Len(s) : CharAt(s, i) = ","})
         IN  SubSeq(s, 1, i - 1) \o SubSeq(s, i + 1, Len(s))

\* amount <= n
AtMost(amount, n) == amount.value < n \/ (amount.value = n /\ amount.hundredths = 0)

\* `${amount}`: the shortest decimal text of the number
NumberText(amount) ==
    ToString(amount.value) \o
        (IF amount.hundredths = 0 THEN ""
         ELSE IF amount.hundredths % 10 = 0 THEN "." \o ToString(amount.hundredths \div 10)
         ELSE IF amount.hundredths < 10 THEN ".0" \o ToString(amount.hundredths)
         ELSE "." \o ToString(amount.hundredths))

\* The bucket of the first budget pattern that matches, from pattern k on;
\* Undefined when none matches.
RECURSIVE BudgetBucket(_, _)
BudgetBucket(lowerMessage, k) ==
    IF k > Len(budgetPatterns) THEN Undefined
    ELSE With(match(lowerMessage, budgetPatterns[k], 1),
              LAMBDA found :
                IF Len(found) = 0 THEN BudgetBucket(lowerMessage, k + 1)
                ELSE With(parseFloat(RemoveFirstComma(found[1])),
                          LAMBDA amount :
                            IF AtMost(amount, 100) THEN "under-100"
                            ELSE IF AtMost(amount, 300) THEN "100-300"
                            ELSE IF AtMost(amount, 500) THEN "300-500"
                            ELSE IF AtMost(amount, 1000) THEN "500-1000"
                            ELSE IF AtMost(amount, 2000) THEN "1000-2000"
                            ELSE "over-2000"))

\* The rest of extractBudgetRange: the explicit range, then the general words.
BudgetWords(lowerMessage, rangeMatch) ==
    IF Len(rangeMatch) > 0
    THEN NumberText(parseFloat(RemoveFirstComma(rangeMatch[1]))) \o "-"
            \o NumberText(parseFloat(RemoveFirstComma(rangeMatch[2])))
    ELSE IF includesAny(lowerMessage, {"cheap", "budget", "affordable"})
    THEN "budget-friendly"
    ELSE IF includesAny(lowerMessage, {"premium", "high-end", "expensive", "luxury"})
    THEN "premium"
    ELSE Undefined

ExtractedBudgetRange(message) ==
    With(BudgetBucket(toLowerCase(message), 1),
         LAMBDA bucket :
            IF bucket # Undefined THEN bucket
            ELSE BudgetWords(toLowerCase(message),
                             match(toLowerCase(message), rangePattern, 1)))

ExtractedContext(message) ==
    [userIntent |-> classifyIntent(message),
     keywords |-> extractKeywords(message),
     shoppingIntent |-> classifyShoppingIntent(message),
     budgetRange |-> ExtractedBudgetRange(message)]

\* The extraction of each message the models draw from, computed once.
ExtractedContextTable == [m \in AllMessages |-> ExtractedContext(m)]

extractContextFromMessage(message) ==
    IF message \in AllMessages THEN ExtractedContextTable[message]
    ELSE ExtractedContext(message)

(***************************************************************************)
(* ConversationService over the conversations table.  A row is             *)
(* [id, messages, context]; a message is [role, content] (timestamps are   *)
(* left out).  The context keeps these fields of what processMessage       *)
(* stores: the extracted and the request-given fields, topic_change,       *)
(* conversation_stage, shopping_intent, purchase_readiness, the ids of     *)
(* suggested_products and applied_guidelines.                              *)
(***************************************************************************)
NoContext ==
    [userIntent |-> Undefined, keywords |-> UndefinedList, shoppingIntent |-> Undefined,
     budgetRange |-> Undefined, user_intent |-> Undefined, budget_range |-> Undefined,
     topic_change |-> FALSE, conversation_stage |-> Undefined,
     shopping_intent |-> Undefined, purchase_readiness |-> 0,
     suggested_products |-> <<>>, applied_guidelines |-> <<>>]

\* null, where a row is expected
NoRow == [id |-> Undefined, messages |-> <<>>, context |-> NoContext]

\* select('*').eq('id', id).single(): the row, null when there is none
getConversation(table, id) ==
    IF \E i \in DOMAIN table : table[i].id = id
    THEN table[CHOOSE i \in DOMAIN table : table[i].id = id]
    ELSE NoRow

\* insert([{messages, context}]): the table with the new row last; the
\* database names the row.
createConversation(table, messages, context) ==
    Append(table, [id |-> "conv-" \o ToString(Len(table) + 1),
                   messages |-> messages, context |-> context])

\* update({messages, context, updated_at}).eq('id', id)
updateConversation(table, id, messages, context) ==
    [i \in DOMAIN table |->
        IF table[i].id = id
        THEN [table[i] EXCEPT !.messages = messages, !.context = context]
        ELSE table[i]]

\* addMessageToConversation, from the row it read: updatedMessages and
\* updatedContext, the arguments of its updateConversation call.
addMessageToConversation(conversation, message, appliedGuidelines) ==
    [messages |-> Append(conversation.messages, message),
     context |-> [conversation.context EXCEPT !.applied_guidelines = appliedGuidelines]]

(***************************************************************************)
(* AgentService.processMessage                                             *)
(***************************************************************************)
determineShoppingIntent(message) ==
    LET lowerMessage == toLowerCase(message)
    IN  IF includesAny(lowerMessage, {"buy", "purchase", "order", "checkout"})
        THEN "buying"
        ELSE IF includesAny(lowerMessage, {"compare", "vs", "versus", "difference"})
        THEN "comparing"
        ELSE IF includesAny(lowerMessage, {"help", "support", "problem", "issue"})
        THEN "support"
        ELSE "browsing"

\* userMessages.forEach(msg => keywords.forEach(keyword => { if
\* (msg.content.toLowerCase().includes(keyword)) ... })): how often the body runs
CountIncluding(userMessages, keywords) ==
    Cardinality({pair \in (DOMAIN userMessages) \X keywords :
                    includes(toLowerCase(userMessages[pair[1]].content), pair[2])})

calculatePurchaseReadinessAllRoles(messages, suggestions) ==
    LET purchaseKeywords == {"buy", "purchase", "order", "price", "cost", "shipping",
                             "delivery", "warranty"}
        detailKeywords == {"specification", "spec", "review", "rating", "compare",
                           "feature"}
    IN  Min(Min(Len(SelectSeq(messages, IsUser)) * 5, 30)
              + 5 * CountIncluding(messages, purchaseKeywords)
              + (IF Len(suggestions) > 0 /\ suggestions[1].confidence > 70
                 THEN 20 ELSE 0)
              + 10 * CountIncluding(messages, detailKeywords),
            100)

calculatePurchaseReadiness(messages, suggestions) ==
    LET userMessages == SelectSeq(messages, IsUser)
        purchaseKeywords == {"buy", "purchase", "order", "price", "cost", "shipping",
                             "delivery", "warranty"}
        detailKeywords == {"specification", "spec", "review", "rating", "compare",
                           "feature"}
    IN  Min(Min(Len(userMessages) * 5, 30)
              + 5 * CountIncluding(userMessages, purchaseKeywords)
              + (IF Len(suggestions) > 0 /\ suggestions[1].confidence > 70
                 THEN 20 ELSE 0)
              + 10 * CountIncluding(userMessages, detailKeywords),
            100)

\* request.context when the request carries none
NoRequestContext ==
    [user_intent |-> Undefined, keywords |-> UndefinedList, budget_range |-> Undefined]

\* { ...messageContext, ...request.context }
FullContext(messageContext, requestContext) ==
    [NoContext EXCEPT
        !.userIntent = messageContext.userIntent,
        !.keywords = IF requestContext.keywords # UndefinedList
                     THEN requestContext.keywords
                     ELSE messageContext.keywords,
        !.shoppingIntent = messageContext.shoppingIntent,
        !.budgetRange = messageContext.budgetRange,
        !.user_intent = requestContext.user_intent,
        !.budget_range = requestContext.budget_range]

NoRequest == [message |-> "", conversation_id |-> Undefined, context |-> NoRequestContext]

\* The locals of one processMessage call: pc names the await it is suspended
\* at ("idle" before the first call, "done" after its return, "failed" after
\* its throw); `read` is the row addMessageToConversation read, `caught` the
\* error its catch logged.
NoCall ==
    [pc |-> "idle", request |-> NoRequest, context |-> NoContext,
     conversation |-> NoRow, messages |-> <<>>, isTopicChange |-> FALSE,
     conversationStage |-> Undefined, applicableGuidelines |-> <<>>,
     smartSuggestions |-> <<>>, aiResponse |-> Undefined, read |-> NoRow,
     conversationId |-> Undefined, caught |-> Undefined, error |-> Undefined]

\* A variant whose catch rethrows the error it caught.
ThrownUnwrapped(error) == error

\* catch (error) { throw new Error('Failed to process message') }
Thrown(error) == "Failed to process message"

Caught(call, error) ==
    [call EXCEPT !.pc = "failed", !.caught = error, !.error = Thrown(error)]

\* From the conversation lookup to the guideline query: the topic-change
\* flag, the user message pushed, the stage derived and set on the context.
AfterLookup(call, conversation) ==
    LET messageContext == extractContextFromMessage(call.request.message)
        isTopicChange == /\ conversation.id # Undefined
                         /\ detectTopicChange(conversation.messages,
                                              messageContext.keywords)
        messages == Append(conversation.messages,
                           [role |-> "user", content |-> call.request.message])
        conversationStage == determineConversationStage(messages)
    IN  [call EXCEPT !.pc = "getApplicableGuidelines",
                     !.conversation = conversation,
                     !.messages = messages,
                     !.isTopicChange = isTopicChange,
                     !.conversationStage = conversationStage,
                     !.context = [@ EXCEPT !.topic_change = isTopicChange,
                                           !.conversation_stage = conversationStage]]

\* The argument of guidelineService.getApplicableGuidelines as the filter
\* reads it: fullContext has no property named conversationStage.
GuidelineContext(fullContext) ==
    [userIntent |-> fullContext.userIntent, conversationStage |-> Undefined,
     keywords |-> fullContext.keywords]

\* The argument of this.generateSmartSuggestions.
SuggestionContext(call) ==
    [userMessage |-> call.request.message,
     conversationStage |-> call.conversationStage,
     userIntent |-> call.context.userIntent,
     keywords |-> call.context.keywords,
     budgetRange |-> call.context.budgetRange,
     isTopicChange |-> call.isTopicChange]

\* enhancedContext, from the suggestions.
EnhancedContext(call, smartSuggestions) ==
    [call.context EXCEPT
        !.shopping_intent = determineShoppingIntent(call.request.message),
        !.purchase_readiness = calculatePurchaseReadiness(call.messages, smartSuggestions),
        !.suggested_products = [i \in DOMAIN Take(smartSuggestions, 3) |->
                                   smartSuggestions[i].product.id]]

\* applicableGuidelines.map(g => g.id!)
AppliedGuidelineIds(call) ==
    [i \in DOMAIN call.applicableGuidelines |-> call.applicableGuidelines[i].id]

(***************************************************************************)
(* processMessage as a process: one action per stretch of code between     *)
(* two awaits.  The guideline store, the response generator and the        *)
(* conversation store may each fail when called (`fails`); `down` are the  *)
(* catalog lookups that fail during suggestion generation.  pmBefore[p]    *)
(* records the conversations table as call p found it.                     *)
(***************************************************************************)
Calls == {1, 2}

\* The guidelines table the assistant runs with.
SeededGuidelines ==
    << CHOOSE g \in GuidelinePool : g.id = 1,
       CHOOSE g \in GuidelinePool : g.id = 3,
       CHOOSE g \in GuidelinePool : g.id = 5,
       CHOOSE g \in GuidelinePool : g.id = 2 >>

RequestContexts ==
    {NoRequestContext,
     [user_intent |-> "greeting", keywords |-> <<"Price", "phone">>,
      budget_range |-> "500-1000"]}

AgentConversationIds == {Undefined, "", "conv-1", "conv-9"}

AgentFailureSets == {{}, {"all"}}

AgentIdle ==
    /\ conversations = <<>>
    /\ pmCall = [p \in Calls |-> NoCall]
    /\ pmBefore = [p \in Calls |-> <<>>]
    /\ pmTurns = 0

\* new AgentService() over an empty conversations table, the seeded
\* guidelines and the product catalog.
AgentStart ==
    /\ AgentIdle
    /\ gStore = SeededGuidelines
    /\ gContext = NoGuidelineCall
    /\ gResult = <<>>
    /\ sCatalog = ProductRows
    /\ sCall = NoSuggestCall
    /\ sOut = NoSuggestOut

\* processMessage(request) up to its first await; `turns` bounds the number
\* of calls of a run.
PMBeginWithin(p, request, turns) ==
    LET messageContext == extractContextFromMessage(request.message)
        begun == [NoCall EXCEPT !.request = request,
                                !.context = FullContext(messageContext, request.context)]
    IN  /\ pmCall[p].pc \in {"idle", "done", "failed"}
        /\ pmTurns < turns
        /\ pmTurns' = pmTurns + 1
        /\ pmBefore' = [pmBefore EXCEPT ![p] = conversations]
        /\ pmCall' = [pmCall EXCEPT ![p] =
                         IF Truthy(request.conversation_id)
                         THEN [begun EXCEPT !.pc = "getConversation"]
                         ELSE AfterLookup(begun, NoRow)]
        /\ UNCHANGED conversations

PMBegin(p, request) == PMBeginWithin(p, request, MaxTurns)

\* await conversationService.getConversation(request.conversation_id)
PMGetConversation(p, fails) ==
    /\ pmCall[p].pc = "getConversation"
    /\ pmCall' = [pmCall EXCEPT ![p] =
                     IF fails THEN Caught(@, "Failed to fetch conversation")
                     ELSE AfterLookup(@, getConversation(conversations,
                                                         @.request.conversation_id))]
    /\ UNCHANGED <<conversations, pmBefore, pmTurns>>

\* await guidelineService.getApplicableGuidelines(fullContext)
PMGetApplicableGuidelines(p, fails) ==
    /\ pmCall[p].pc = "getApplicableGuidelines"
    /\ pmCall' = [pmCall EXCEPT ![p] =
                     IF fails THEN Caught(@, "Failed to fetch guidelines")
                     ELSE [@ EXCEPT !.pc = "generateSmartSuggestions",
                                    !.applicableGuidelines =
                                        getApplicableGuidelines(
                                            gStore, GuidelineContext(pmCall[p].context))]]
    /\ UNCHANGED <<conversations, pmBefore, pmTurns>>

\* await this.generateSmartSuggestions(...), then the shopping analysis and
\* enhancedContext.
PMGenerateSmartSuggestions(p, down) ==
    LET call == pmCall[p]
    IN  /\ call.pc = "generateSmartSuggestions"
        /\ pmCall' = [pmCall EXCEPT ![p] =
                         With(agentGenerateSmartSuggestions(
                                  sCatalog, down, mappingConfig(cfgHeap, cfgRef, 1),
                                  SuggestionContext(call)).suggestions,
                              LAMBDA smartSuggestions :
                                [call EXCEPT
                                    !.pc = "generateResponse",
                                    !.smartSuggestions = smartSuggestions,
                                    !.context = EnhancedContext(call, smartSuggestions)])]
        /\ UNCHANGED <<conversations, pmBefore, pmTurns>>

\* await promptService.generateResponse(...), then the assistant message.
PMGenerateResponse(p, fails, aiResponse) ==
    LET call == pmCall[p]
    IN  /\ call.pc = "generateResponse"
        /\ pmCall' = [pmCall EXCEPT ![p] =
                         IF fails THEN Caught(call, "Failed to generate response")
                         ELSE [call EXCEPT
                                  !.pc = IF call.conversation.id # Undefined
                                         THEN "addMessageToConversation"
                                         ELSE "createConversation",
                                  !.aiResponse = aiResponse,
                                  !.messages = Append(@, [role |-> "assistant",
                                                          content |-> aiResponse])]]
        /\ UNCHANGED <<conversations, pmBefore, pmTurns>>

\* addMessageToConversation: await this.getConversation(conversationId)
PMAddMessageToConversation(p, fails) ==
    LET call == pmCall[p]
        conversation == getConversation(conversations, call.conversation.id)
    IN  /\ call.pc = "addMessageToConversation"
        /\ pmCall' = [pmCall EXCEPT ![p] =
                         IF fails THEN Caught(call, "Failed to fetch conversation")
                         ELSE IF conversation.id = Undefined
                         THEN Caught(call, "Conversation not found")
                         ELSE [call EXCEPT !.pc = "updateConversation",
                                           !.read = conversation]]
        /\ UNCHANGED <<conversations, pmBefore, pmTurns>>

\* addMessageToConversation: updateConversation(conversationId,
\* updatedMessages, updatedContext), then processMessage returns.
PMUpdateConversation(p, fails) ==
    LET call == pmCall[p]
        assistantMessage == call.messages[Len(call.messages)]
        updated == addMessageToConversation(call.read, assistantMessage,
                                            AppliedGuidelineIds(call))
        missing == getConversation(conversations, call.read.id).id = Undefined
    IN  /\ call.pc = "updateConversation"
        /\ IF fails \/ missing
           THEN /\ pmCall' = [pmCall EXCEPT ![p] =
                                 Caught(call, "Failed to update conversation")]
                /\ UNCHANGED conversations
           ELSE /\ conversations' = updateConversation(conversations, call.read.id,
                                                       updated.messages, updated.context)
                /\ pmCall' = [pmCall EXCEPT ![p] =
                                 [call EXCEPT !.pc = "done",
                                              !.conversationId = call.read.id]]
        /\ UNCHANGED <<pmBefore, pmTurns>>

\* conversationService.createConversation(messages, {...enhancedContext,
\* applied_guidelines}), then processMessage returns.
PMCreateConversation(p, fails) ==
    LET call == pmCall[p]
        created == createConversation(
                       conversations, call.messages,
                       [call.context EXCEPT !.applied_guidelines = AppliedGuidelineIds(call)])
    IN  /\ call.pc = "createConversation"
        /\ IF fails
           THEN /\ pmCall' = [pmCall EXCEPT ![p] =
                                 Caught(call, "Failed to create conversation")]
                /\ UNCHANGED conversations
           ELSE /\ conversations' = created
                /\ pmCall' = [pmCall EXCEPT ![p] =
                                 [call EXCEPT !.pc = "done",
                                              !.conversationId = created[Len(created)].id]]
        /\ UNCHANGED <<pmBefore, pmTurns>>

\* One caller: its calls follow one another.
AgentStep(p) ==
    \/ \E message \in ShopperMessages, conversation_id \in AgentConversationIds,
          context \in RequestContexts :
            PMBegin(p, [message |-> message, conversation_id |-> conversation_id,
                        context |-> context])
    \/ \E fails \in BOOLEAN : PMGetConversation(p, fails)
    \/ \E fails \in BOOLEAN : PMGetApplicableGuidelines(p, fails)
    \/ \E down \in AgentFailureSets : PMGenerateSmartSuggestions(p, down)
    \/ \E fails \in BOOLEAN, aiResponse \in AssistantMessages :
            PMGenerateResponse(p, fails, aiResponse)
    \/ \E fails \in BOOLEAN : PMAddMessageToConversation(p, fails)
    \/ \E fails \in BOOLEAN : PMUpdateConversation(p, fails)
    \/ \E fails \in BOOLEAN : PMCreateConversation(p, fails)

(***************************************************************************)
(* Claims about processMessage and the conversations table.                *)
(***************************************************************************)
\* The messages of one turn, in order.
C3_Turn(call) ==
    << [role |-> "user", content |-> call.request.message],
       [role |-> "assistant", content |-> call.aiResponse] >>

\* C3: after processMessage completes for a request that names an existing
\* conversation, the stored messages of that conversation are the previously
\* stored messages followed by the new user message and the assistant reply.
C3_HistoryKeepsBothMessages ==
    \A p \in Calls :
        (pmCall[p].pc = "done" /\ pmCall[p].conversation.id # Undefined) =>
            getConversation(conversations, pmCall[p].conversation.id).messages
                = getConversation(pmBefore[p], pmCall[p].conversation.id).messages
                    \o C3_Turn(pmCall[p])

\* C5: when the guideline store, the response generator or the conversation
\* store fails at any step of processMessage, the call fails with the error
\* 'Failed to process message' and the conversations table holds exactly what
\* it held when the call began.
C5_FailureLeavesStore ==
    \A p \in Calls :
        pmCall[p].pc = "failed" =>
            /\ pmCall[p].error = "Failed to process message"
            /\ conversations = pmBefore[p]

\* A turn on a stored conversation failed at the final write, after the
\* guidelines were fetched and the reply was generated.
C5_Witness ==
    /\ pmCall[1].pc = "failed"
    /\ pmCall[1].caught = "Failed to update conversation"
    /\ pmCall[1].aiResponse # Undefined
    /\ getConversation(conversations, pmCall[1].conversation.id).id # Undefined

(***************************************************************************)
(* calculatePurchaseReadiness under examination: a history grows by one    *)
(* message at a time and the score is computed for it with a suggestion    *)
(* list.                                                                   *)
(***************************************************************************)
MaxReadinessMsgs == 7

ReadinessMessages ==
    {[role |-> "user", content |-> "hello there"],
     [role |-> "user", content |-> "Compare the price of this specification"],
     [role |-> "assistant", content |-> "You can buy it with warranty"]}

ReadinessSuggestionLists ==
    {<<>>,
     Suggest(<<ProductRows[1]>>, LAMBDA p : "Popular choice", 70, "popular"),
     Suggest(<<ProductRows[1]>>, LAMBDA p : "Top rated", 71, "stage"),
     Suggest(<<ProductRows[2]>>, LAMBDA p : "Popular choice", 50, "popular")
        \o Suggest(<<ProductRows[1]>>, LAMBDA p : "Matches phone", 90, "keyword")}

ReadinessStart ==
    /\ fnArgs = [messages |-> <<>>, suggestions |-> <<>>]
    /\ fnResult = NotCalled

ReadinessPush(message) ==
    /\ Len(fnArgs.messages) < MaxReadinessMsgs
    /\ fnArgs' = [messages |-> Append(fnArgs.messages, message), suggestions |-> <<>>]
    /\ fnResult' = NotCalled

ReadinessCall(suggestions) ==
    /\ ~fnResult.called
    /\ fnArgs' = [fnArgs EXCEPT !.suggestions = suggestions]
    /\ fnResult' = Returned(calculatePurchaseReadiness(fnArgs.messages, suggestions))

ReadinessStep ==
    \/ \E message \in ReadinessMessages : ReadinessPush(message)
    \/ \E suggestions \in ReadinessSuggestionLists : ReadinessCall(suggestions)

(***************************************************************************)
(* C11: calculatePurchaseReadiness returns an integer between 0 and 100    *)
(* equal to min(100, min(5 x userTurns, 30) + 5 for every purchase keyword *)
(* found in a user turn + 10 for every detail keyword found in a user turn *)
(* + 20 if the first suggestion's confidence is strictly greater than      *)
(* 0.7); assistant messages contribute nothing.  A keyword counts once for *)
(* each user turn that contains it.                                        *)
(***************************************************************************)
C11_PurchaseWords ==
    {"buy", "purchase", "order", "price", "cost", "shipping", "delivery", "warranty"}

C11_DetailWords == {"specification", "spec", "review", "rating", "compare", "feature"}

C11_Found(content, words) ==
    Cardinality({word \in words : includes(toLowerCase(content), word)})

RECURSIVE C11_KeywordPoints(_)
C11_KeywordPoints(messages) ==
    IF messages = <<>> THEN 0
    ELSE (IF Head(messages).role = "user"
          THEN 5 * C11_Found(Head(messages).content, C11_PurchaseWords)
                  + 10 * C11_Found(Head(messages).content, C11_DetailWords)
          ELSE 0)
         + C11_KeywordPoints(Tail(messages))

C11_UserTurns(messages) == Cardinality({i \in DOMAIN messages : messages[i].role = "user"})

C11_Expected(messages, suggestions) ==
    Min(100,
        Min(5 * C11_UserTurns(messages), 30)
          + C11_KeywordPoints(messages)
          + (IF suggestions # <<>> /\ suggestions[1].confidence > 70 THEN 20 ELSE 0))

MaxStageLimit == 5

StageStrategies == {"popular", "top_rated", "discounted", "featured", "mixed"}

StageConfigs ==
    {[strategy |-> strategy, reason |-> framing.reason,
      confidence |-> framing.confidence, limit |-> limit] :
        strategy \in StageStrategies \cup {"seasonal"},
        framing \in {[reason |-> "Hand-picked for you", confidence |-> 90],
                     [reason |-> "", confidence |-> 0]},
        limit \in 0..MaxStageLimit}

StageFailureSets == {{}, {"popular"}, {"top_rated"}, {"discounted"}, {"all"}}

\* The default configuration with its own stages, and with one more stage.
StageLookups ==
    {[config |-> defaultMappingConfig, stage |-> stage] :
        stage \in {"introduction", "presentation", "closing", "checkout"}}
    \cup {[config |-> [defaultMappingConfig EXCEPT
                          !.stages = Put(@, "custom", stageConfig)],
           stage |-> "custom"] : stageConfig \in StageConfigs}

StageBatchStart == fnArgs = <<>> /\ fnResult = NotCalled

StageBatchCall(catalog, down, lookup) ==
    /\ ~fnResult.called
    /\ fnArgs' = [catalog |-> catalog, down |-> down, config |-> lookup.config,
                  stage |-> lookup.stage]
    /\ fnResult' = Returned(getProductsByStage(catalog, down, lookup.config, lookup.stage))

StageBatchStep ==
    \E catalog \in Catalogs, down \in StageFailureSets, lookup \in StageLookups :
        StageBatchCall(catalog, down, lookup)

\* The stage configuration the call looked up, and the batch it returned.
StageConfigOfCall == fnArgs.config.stages[fnArgs.stage]

StageBatch == fnResult.value.suggestions

(***************************************************************************)
(* C12: every batch the stage strategy returns has at most the stage       *)
(* configuration's limit entries, and every entry carries the reason and   *)
(* the confidence of the stage configuration, for each of the strategies   *)
(* popular, top_rated, discounted, featured and mixed.                     *)
(***************************************************************************)
C12_StageBatchFramed ==
    (fnResult.called /\ fnArgs.stage \in DOMAIN fnArgs.config.stages) =>
        /\ Len(StageBatch) <= StageConfigOfCall.limit
        /\ \A i \in DOMAIN StageBatch :
              /\ StageBatch[i].reason = StageConfigOfCall.reason
              /\ StageBatch[i].confidence = StageConfigOfCall.confidence

\* The mixed strategy collects 2 + 2 + 2 entries for limit 4; the batch is cut
\* to 4 and its popular entries no longer say 'Popular choice'.
C12_Witness ==
    /\ fnResult.called
    /\ fnArgs.stage = "custom"
    /\ StageConfigOfCall.strategy = "mixed"
    /\ StageConfigOfCall.limit = 4
    /\ StageConfigOfCall.confidence = 90
    /\ Len(StageBatch) = 4
    /\ Len(StageCollected(fnArgs.catalog, fnArgs.down, StageConfigOfCall).suggestions) = 6

(***************************************************************************)
(* C13: every suggestion the stage strategy contributes has type 'stage',  *)
(* for the default 'introduction' stage too.                               *)
(***************************************************************************)
C13_StageBatchTyped ==
    fnResult.called => \A i \in DOMAIN StageBatch : StageBatch[i].type = "stage"

(***************************************************************************)
(* PromptService.ts holds two definitions of the class; the first          *)
(* classifyIntent is the one of the sales assistant, the second (above,    *)
(* intentChain) the one of the shopping assistant.                         *)
(***************************************************************************)
intentChainFirst ==
    << [cues |-> {"hello", "hi ", "hey "}, whole |-> {"hello", "hi", "hey"},
        intent |-> "greeting"],
       [cues |-> {"help", "assistance", "support"}, whole |-> {},
        intent |-> "help_request"],
       [cues |-> {"price", "cost", "budget"}, whole |-> {},
        intent |-> "pricing_inquiry"],
       [cues |-> {"demo", "trial", "test"}, whole |-> {}, intent |-> "demo_request"],
       [cues |-> {"feature", "how does", "what can"}, whole |-> {},
        intent |-> "feature_inquiry"],
       [cues |-> {"compare", "alternative", "vs"}, whole |-> {},
        intent |-> "comparison_request"],
       [cues |-> {"buy", "purchase", "get started"}, whole |-> {},
        intent |-> "purchase_intent"],
       [cues |-> {"problem", "issue", "concern"}, whole |-> {},
        intent |-> "objection_handling"] >>

classifyIntentFirst(message) ==
    LET lowerMessage == toLowerCase(message)
        taken == {i \in DOMAIN intentChainFirst :
                     \/ includesAny(lowerMessage, intentChainFirst[i].cues)
                     \/ lowerMessage \in intentChainFirst[i].whole}
    IN  IF trim(message) = "" THEN "unknown"
        ELSE IF taken = {} THEN "general_inquiry"
        ELSE intentChainFirst[Least(taken)].intent

\* Messages put together from an opening, a body and an ending, and the
\* messages of the repository's tests.
IntentOpenings == {"", "Hello, ", "hey "}

IntentBodies ==
    {"", "I need assistance", "Can I get a demo?", "How much does this cost?",
     "What features does this have?", "Compare this to the alternative products",
     "I want to buy this", "I have concerns about this product", "tell me more"}

IntentEndings == {"", " ", " and buy it", " with support"}

IntentMessages ==
    {opening \o body \o ending :
        opening \in IntentOpenings, body \in IntentBodies, ending \in IntentEndings}
    \cup {"Hello there!", "hi", "HEY", "   ", "hello, I want to buy a phone"}

IntentStart == fnArgs = <<>> /\ fnResult = NotCalled

\* extractContextFromMessage(message).userIntent, by either definition.
IntentClassify(message) ==
    /\ ~fnResult.called
    /\ fnArgs' = [message |-> message]
    /\ fnResult' = Returned([first |-> classifyIntentFirst(message),
                             second |-> classifyIntent(message)])

IntentStep == \E message \in IntentMessages : IntentClassify(message)

(***************************************************************************)
(* C14: classifyIntent evaluates its predicates in the order greeting,     *)
(* help, pricing, demo, feature, comparison, purchase, objection, the      *)
(* first match winning, then the default general_inquiry; an empty or      *)
(* whitespace-only message gives 'unknown'.  A predicate is the condition  *)
(* the definition itself tests for that intent.                            *)
(***************************************************************************)
C14_Order ==
    <<"greeting", "help_request", "pricing_inquiry", "demo_request", "feature_inquiry",
      "comparison_request", "purchase_intent", "objection_handling">>

C14_Holds(chain, intent, message) ==
    \E i \in DOMAIN chain :
        /\ chain[i].intent = intent
        /\ \/ includesAny(toLowerCase(message), chain[i].cues)
           \/ toLowerCase(message) \in chain[i].whole

C14_Claimed(chain, message) ==
    LET matching == {k \in DOMAIN C14_Order : C14_Holds(chain, C14_Order[k], message)}
    IN  IF \A i \in 1..Len(message) : CharAt(message, i) = " " THEN "unknown"
        ELSE IF matching = {} THEN "general_inquiry"
        ELSE C14_Order[Least(matching)]

C14_EarliestPredicateWins ==
    fnResult.called => fnResult.value.second = C14_Claimed(intentChain, fnArgs.message)

\* The first definition follows the claimed order.
C14_FirstDefinitionFollowsOrder ==
    fnResult.called => fnResult.value.first = C14_Claimed(intentChainFirst, fnArgs.message)

\* The examples of the claim, as the two definitions classify them.
C14_Examples ==
    fnResult.called =>
        /\ fnArgs.message = "hello, I want to buy a phone"
              => fnResult.value = [first |-> "greeting", second |-> "purchase_intent"]
        /\ fnArgs.message = "I need assistance"
              => fnResult.value = [first |-> "help_request",
                                   second |-> "product_recommendation"]
        /\ fnArgs.message = "Can I get a demo?"
              => fnResult.value = [first |-> "demo_request", second |-> "purchase_intent"]
        /\ fnArgs.message \in {"", "   "}
              => fnResult.value = [first |-> "unknown", second |-> "unknown"]

(***************************************************************************)
(* extractBudgetRange under examination: one call with a message that      *)
(* carries a budget cue and an amount.                                     *)
(***************************************************************************)
BudgetCues == {"under", "Below", "maximum", "budget of", "around", "about"}

\* An amount as it is written, and the number it stands for (whole dollars
\* and hundredths).
BudgetAmounts ==
    {[text |-> "99", value |-> 99, hundredths |-> 0],
     [text |-> "100", value |-> 100, hundredths |-> 0],
     [text |-> "100.50", value |-> 100, hundredths |-> 50],
     [text |-> "300", value |-> 300, hundredths |-> 0],
     [text |-> "301", value |-> 301, hundredths |-> 0],
     [text |-> "500", value |-> 500, hundredths |-> 0],
     [text |-> "1000", value |-> 1000, hundredths |-> 0],
     [text |-> "1,000", value |-> 1000, hundredths |-> 0],
     [text |-> "1,500", value |-> 1500, hundredths |-> 0],
     [text |-> "2,000.00", value |-> 2000, hundredths |-> 0],
     [text |-> "2,001", value |-> 2001, hundredths |-> 0],
     [text |-> "25000", value |-> 25000, hundredths |-> 0],
     [text |-> "1,000,000", value |-> 1000000, hundredths |-> 0],
     [text |-> "2,500,000", value |-> 2500000, hundredths |-> 0]}

BudgetMessage(cue, blank, dollar, amount) ==
    "a phone " \o cue \o blank \o dollar \o amount.text

BudgetStart == fnArgs = <<>> /\ fnResult = NotCalled

BudgetExtract(cue, blank, dollar, amount) ==
    /\ ~fnResult.called
    /\ fnArgs' = [message |-> BudgetMessage(cue, blank, dollar, amount), cue |-> cue,
                  amount |-> amount]
    /\ fnResult' = Returned(ExtractedBudgetRange(BudgetMessage(cue, blank, dollar, amount)))

BudgetStep ==
    \E cue \in BudgetCues, blank \in {"", " "}, dollar \in {"", "$"},
       amount \in BudgetAmounts :
        BudgetExtract(cue, blank, dollar, amount)

(***************************************************************************)
(* C15: for a message whose budget cue (under, below, maximum, budget of,  *)
(* around, about) carries the amount N, with or without the dollar sign    *)
(* and with or without thousands separators, extractBudgetRange returns    *)
(* the bucket of the numeric value of N: under-100 if N <= 100, 100-300 if *)
(* N <= 300, 300-500 if N <= 500, 500-1000 if N <= 1000, 1000-2000 if      *)
(* N <= 2000, otherwise over-2000.                                         *)
(***************************************************************************)
C15_NoMoreThan(amount, n) ==
    100 * amount.value + amount.hundredths <= 100 * n

C15_Bucket(amount) ==
    CASE C15_NoMoreThan(amount, 100) -> "under-100"
      [] ~C15_NoMoreThan(amount, 100) /\ C15_NoMoreThan(amount, 300) -> "100-300"
      [] ~C15_NoMoreThan(amount, 300) /\ C15_NoMoreThan(amount, 500) -> "300-500"
      [] ~C15_NoMoreThan(amount, 500) /\ C15_NoMoreThan(amount, 1000) -> "500-1000"
      [] ~C15_NoMoreThan(amount, 1000) /\ C15_NoMoreThan(amount, 2000) -> "1000-2000"
      [] OTHER -> "over-2000"

C15_BucketOfTheAmount ==
    fnResult.called => fnResult.value = C15_Bucket(fnArgs.amount)

\* With at most one thousands separator in the amount the bucket is right.
C15_BucketUpToOneSeparator ==
    (fnResult.called /\ fnArgs.amount.value < 1000000) =>
        fnResult.value = C15_Bucket(fnArgs.amount)

\* What the amounts with two separators give: the text is cut at the second
\* comma.
C15_SecondSeparatorCutsTheAmount ==
    fnResult.called =>
        /\ fnArgs.amount.text = "1,000,000" => fnResult.value = "500-1000"
        /\ fnArgs.amount.text = "2,500,000" => fnResult.value = "over-2000"

(***************************************************************************)
(* The merge at the end of generateSmartSuggestions under examination:     *)
(* suggestions arrive in any order and the list is deduplicated and cut.   *)
(***************************************************************************)
MaxArrivals == 6

\* Two entries for product 1 with one confidence, two products with one
\* confidence, and a stage batch of three.
MergePool ==
    Suggest(<<ProductRows[1]>>, LAMBDA p : "Matches your phone search", 90, "contextual")
    \o Suggest(<<ProductRows[1]>>, LAMBDA p : "Matches phone", 90, "keyword")
    \o Suggest(<<ProductRows[2]>>, LAMBDA p : "Matches phone", 80, "keyword")
    \o Suggest(<<ProductRows[4]>>, LAMBDA p : "Recommended for you", 80, "intent")
    \o Suggest(SubSeq(ProductRows, 5, 7), LAMBDA p : "Perfect for getting started", 60,
               "stage")

MergeStart == fnArgs = [collected |-> <<>>] /\ fnResult = NotCalled

\* suggestions.push(...) of one more entry, then lines 286-288.
MergeCollect(suggestion) ==
    /\ Len(fnArgs.collected) < MaxArrivals
    /\ suggestion \notin Range(fnArgs.collected)
    /\ fnArgs' = [collected |-> Append(fnArgs.collected, suggestion)]
    /\ fnResult' = Returned(Take(deduplicateSuggestions(Append(fnArgs.collected, suggestion)),
                                 MaxSuggestions))

MergeStep == \E i \in DOMAIN MergePool : MergeCollect(MergePool[i])

(***************************************************************************)
(* C17 as stated: the final suggestion list does not depend on the order   *)
(* in which the collected suggestions arrived: every permutation of them   *)
(* gives the same merged, deduplicated and truncated list, here the list   *)
(* of the same suggestions arriving in the order of MergePool.             *)
(***************************************************************************)
C17_InPoolOrder(collected) ==
    SelectSeq(MergePool, LAMBDA suggestion : suggestion \in Range(collected))

C17_ListFor(collected) == Take(deduplicateSuggestions(collected), MaxSuggestions)

C17_ArrivalOrderIrrelevant ==
    fnResult.called => fnResult.value = C17_ListFor(C17_InPoolOrder(fnArgs.collected))

(***************************************************************************)
(* C17 amended: the final list is the same for every permutation of the    *)
(* collected suggestions that keeps the relative order of the suggestions  *)
(* of equal confidence.                                                    *)
(***************************************************************************)
C17_PoolIndex(suggestion) == CHOOSE i \in DOMAIN MergePool : MergePool[i] = suggestion

C17_TiesKeepOrder(collected) ==
    \A i, j \in DOMAIN collected :
        (i < j /\ collected[i].confidence = collected[j].confidence)
            => C17_PoolIndex(collected[i]) < C17_PoolIndex(collected[j])

C17_ArrivalOrderOfTiesOnly ==
    (fnResult.called /\ C17_TiesKeepOrder(fnArgs.collected)) =>
        fnResult.value = C17_ListFor(C17_InPoolOrder(fnArgs.collected))

\* Six suggestions arrived in another order than MergePool's, lowest
\* confidence first, ties in order: product 1 twice, six entries cut to five.
C17_Witness ==
    /\ fnResult.called
    /\ Len(fnArgs.collected) = 6
    /\ fnArgs.collected[1].confidence = 60
    /\ fnArgs.collected[6].confidence = 90
    /\ C17_TiesKeepOrder(fnArgs.collected)
    /\ fnArgs.collected # C17_InPoolOrder(fnArgs.collected)
    /\ \E i, j \in DOMAIN fnArgs.collected :
          i # j /\ fnArgs.collected[i].product.id = fnArgs.collected[j].product.id
    /\ Len(fnResult.value) = 5
    /\ fnResult.value[1].type = "contextual"

(***************************************************************************)
(* generateSmartSuggestions step by step, on instance 1, while mutations   *)
(* of the instance's mapping configuration run.  The call reads            *)
(* this.mappingConfig once for each keyword (line 566), once in the intent *)
(* strategy (line 682) and once in the stage strategy (line 750); it gives *)
(* up control only while it awaits a catalog lookup.  fnArgs.versions      *)
(* lists the configurations the instance has had, fnResult is the call;    *)
(* its `seen` tells after how many mutations each read took place.         *)
(***************************************************************************)
MaxRaceOps == 2

RaceContext ==
    [userMessage |-> "I need a Laptop", keywords |-> <<"Tablet", "phone">>,
     userIntent |-> "general_product_inquiry", conversationStage |-> "closing",
     budgetRange |-> Undefined, isTopicChange |-> FALSE]

\* An update that names a keyword and a stage at once.
RaceUpdateArgs ==
    {[keywords |-> ("tablet" :> [searchTerms |-> <<"tablet">>,
                                 categories |-> <<"tablets">>, priority |-> 1]),
      intents |-> EmptyTable,
      stages |-> ("closing" :> [strategy |-> "mixed", reason |-> "Hand-picked for you",
                                confidence |-> 70, limit |-> 2])]}

RaceBegun ==
    [called |-> FALSE, pc |-> "contextual", left |-> <<>>,
     acc |-> [suggestions |-> <<>>, warned |-> FALSE],
     by |-> [name \in {"contextual", "keyword", "intent", "stage"} |-> NotRun],
     seen |-> [keyword |-> <<>>, intent |-> <<>>, stage |-> <<>>],
     suspended |-> FALSE, result |-> <<>>]

RaceStart ==
    /\ ConfigStart
    /\ fnArgs = [catalog |-> ProductRows, down |-> {}, context |-> RaceContext,
                 versions |-> <<defaultMappingConfig>>]
    /\ fnResult = RaceBegun

\* A variant in which the call works on the configuration it started with.
RaceTablesAtCallStart(heap, ref, versions) == versions[1]

\* this.mappingConfig, at the time a strategy reads it
RaceTables(heap, ref, versions) == mappingConfig(heap, ref, 1)

\* A strategy that pushed a suggestion or logged a failed lookup has awaited
\* a lookup.
RaceLookedUp(out) == Len(out.suggestions) > 0 \/ out.warned

\* The method's catch: the call returns [].
RaceCaught(call) == [call EXCEPT !.pc = "done", !.called = TRUE, !.result = <<>>]

RaceContextual ==
    /\ fnResult.pc = "contextual"
    /\ fnResult' =
          With(FirstFour(fnArgs.catalog, fnArgs.down, defaultMappingConfig,
                         fnArgs.context).contextual,
               LAMBDA out :
                  [fnResult EXCEPT !.pc = "keyword",
                                   !.left = IF Runs(fnArgs.context).keyword
                                            THEN Take(fnArgs.context.keywords, 3)
                                            ELSE <<>>,
                                   !.by.contextual = out,
                                   !.suspended = RaceLookedUp(out)])
    /\ UNCHANGED <<fnArgs, configVars>>

\* One pass of the loop over the keywords; after the last one the strategy
\* returns what the passes pushed.
RaceKeywordPass ==
    /\ fnResult.pc = "keyword"
    /\ fnResult' =
          IF fnResult.left = <<>>
          THEN [fnResult EXCEPT !.pc = "intent",
                                !.by.keyword = IF Runs(fnArgs.context).keyword
                                               THEN fnResult.acc @@ [threw |-> FALSE]
                                               ELSE NotRun]
          ELSE With(KeywordPass(fnArgs.catalog, fnArgs.down,
                                RaceTables(cfgHeap, cfgRef, fnArgs.versions),
                                Head(fnResult.left),
                                budgetBounds(fnArgs.context.budgetRange), fnResult.acc),
                    LAMBDA pushed :
                       [fnResult EXCEPT !.left = Tail(fnResult.left),
                                        !.acc = pushed,
                                        !.seen.keyword = Append(@, cfgOps),
                                        !.suspended =
                                            \/ pushed.warned
                                            \/ pushed.suggestions # fnResult.acc.suggestions])
    /\ UNCHANGED <<fnArgs, configVars>>

RaceIntent ==
    /\ fnResult.pc = "intent"
    /\ fnResult' =
          IF ~Runs(fnArgs.context).intent THEN [fnResult EXCEPT !.pc = "stage"]
          ELSE With(getProductsByIntent(fnArgs.catalog, fnArgs.down,
                                        RaceTables(cfgHeap, cfgRef, fnArgs.versions),
                                        fnArgs.context.userIntent),
                    LAMBDA out :
                       IF out.threw THEN RaceCaught(fnResult)
                       ELSE [fnResult EXCEPT !.pc = "stage", !.by.intent = out,
                                             !.seen.intent = <<cfgOps>>,
                                             !.suspended = RaceLookedUp(out)])
    /\ UNCHANGED <<fnArgs, configVars>>

RaceStage ==
    /\ fnResult.pc = "stage"
    /\ fnResult' =
          IF ~Runs(fnArgs.context).stage THEN [fnResult EXCEPT !.pc = "merge"]
          ELSE With(getProductsByStage(fnArgs.catalog, fnArgs.down,
                                       RaceTables(cfgHeap, cfgRef, fnArgs.versions),
                                       fnArgs.context.conversationStage),
                    LAMBDA out :
                       [fnResult EXCEPT !.pc = "merge", !.by.stage = out,
                                        !.seen.stage = <<cfgOps>>,
                                        !.suspended = RaceLookedUp(out)])
    /\ UNCHANGED <<fnArgs, configVars>>

\* The popular fallback, deduplication and slice(0, 5).
RaceMerge ==
    /\ fnResult.pc = "merge"
    /\ fnResult' =
          With(Merged(fnArgs.context,
                      WithFallback(fnArgs.catalog, fnArgs.down, fnArgs.context,
                                   fnResult.by)),
               LAMBDA out :
                  [fnResult EXCEPT !.pc = "done", !.called = TRUE,
                                   !.suspended = FALSE, !.result = out.result])
    /\ UNCHANGED <<fnArgs, configVars>>

\* A mutation runs while the call awaits a lookup.
RaceMutable == fnResult.suspended /\ ~fnResult.called /\ cfgOps < MaxRaceOps

RaceRecorded ==
    /\ fnArgs' = [fnArgs EXCEPT !.versions = Append(@, mappingConfig(cfgHeap', cfgRef', 1))]
    /\ UNCHANGED fnResult

RaceAddKeyword(keyword, config) ==
    RaceMutable /\ ConfigAddKeyword(1, keyword, config) /\ RaceRecorded

RaceAddIntent(intent, config) ==
    RaceMutable /\ ConfigAddIntent(1, intent, config) /\ RaceRecorded

RaceAddStage(stage, config) ==
    RaceMutable /\ ConfigAddStage(1, stage, config) /\ RaceRecorded

RaceUpdate(config) == RaceMutable /\ ConfigUpdate(1, config) /\ RaceRecorded

RaceStep ==
    \/ RaceContextual
    \/ RaceKeywordPass
    \/ RaceIntent
    \/ RaceStage
    \/ RaceMerge
    \/ \E keyword \in KeywordArgs, config \in KeywordEntries : RaceAddKeyword(keyword, config)
    \/ \E intent \in IntentArgs, config \in IntentEntries : RaceAddIntent(intent, config)
    \/ \E stage \in StageArgs, config \in StageEntries : RaceAddStage(stage, config)
    \/ \E config \in RaceUpdateArgs \cup UpdateArgs : RaceUpdate(config)

(***************************************************************************)
(* C18: there is no snapshot isolation for the mapping configuration: each *)
(* strategy of a call works on the tables as they are when it reads them,  *)
(* so a call suspended at a catalog lookup while updateMappingConfig or an *)
(* add* mutation runs can use table contents from before the mutation for  *)
(* one strategy and from after the mutation for a later strategy.          *)
(***************************************************************************)
RECURSIVE C18_KeywordPasses(_, _, _)
C18_KeywordPasses(keywords, seen, acc) ==
    IF seen = <<>> THEN acc
    ELSE C18_KeywordPasses(Tail(keywords), Tail(seen),
                           KeywordPass(fnArgs.catalog, fnArgs.down,
                                       fnArgs.versions[Head(seen) + 1], Head(keywords),
                                       budgetBounds(fnArgs.context.budgetRange), acc))

C18_StrategiesReadLiveTables ==
    /\ fnResult.acc = C18_KeywordPasses(fnArgs.context.keywords, fnResult.seen.keyword,
                                        [suggestions |-> <<>>, warned |-> FALSE])
    /\ fnResult.seen.intent # <<>> =>
          fnResult.by.intent = getProductsByIntent(fnArgs.catalog, fnArgs.down,
                                                   fnArgs.versions[fnResult.seen.intent[1] + 1],
                                                   fnArgs.context.userIntent)
    /\ fnResult.seen.stage # <<>> =>
          fnResult.by.stage = getProductsByStage(fnArgs.catalog, fnArgs.down,
                                                 fnArgs.versions[fnResult.seen.stage[1] + 1],
                                                 fnArgs.context.conversationStage)

\* One updateMappingConfig that maps 'tablet' and replaces stage 'closing'
\* ran after the keyword strategy had read the keywords and before the stage
\* strategy read the stages: the call's keyword entries are those of the
\* unmapped 'Tablet' (0.7), its stage entries carry the new reason.
C18_Witness ==
    /\ fnResult.called
    /\ cfgLast.op = "updateMappingConfig"
    /\ cfgLast.given \in RaceUpdateArgs
    /\ Len(fnArgs.versions) = 2
    /\ fnResult.seen.keyword = <<0, 0>>
    /\ fnResult.seen.stage = <<1>>
    /\ "tablet" \notin DOMAIN fnArgs.versions[1].keywords
    /\ "tablet" \in DOMAIN fnArgs.versions[2].keywords
    /\ \E i \in DOMAIN fnResult.by.keyword.suggestions :
          /\ fnResult.by.keyword.suggestions[i].confidence = 70
          /\ fnResult.by.keyword.suggestions[i].reason = "Matches \"Tablet\""
    /\ Len(fnResult.by.stage.suggestions) > 0
    /\ \A i \in DOMAIN fnResult.by.stage.suggestions :
          fnResult.by.stage.suggestions[i].reason = "Hand-picked for you"
    /\ fnResult.by.keyword # getProductsByKeywords(fnArgs.catalog, fnArgs.down,
                                                   fnArgs.versions[2],
                                                   fnArgs.context.keywords,
                                                   fnArgs.context.budgetRange)
    /\ fnResult.by.stage # getProductsByStage(fnArgs.catalog, fnArgs.down,
                                              fnArgs.versions[1],
                                              fnArgs.context.conversationStage)

(***************************************************************************)
(* C19: in every turn handled by processMessage, each applied guideline    *)
(* that declares a non-empty conversation_stage condition lists the        *)
(* conversation stage derived for that turn; a guideline restricted to     *)
(* another stage is never applied.                                         *)
(***************************************************************************)
C19_AppliedGuidelinesMatchStage ==
    \A p \in Calls :
        \A i \in DOMAIN pmCall[p].applicableGuidelines :
            LET guideline == pmCall[p].applicableGuidelines[i]
            IN  (guideline.conditions.defined
                    /\ Declares(guideline.conditions.conversation_stage))
                    => pmCall[p].conversationStage
                          \in Range(guideline.conditions.conversation_stage)

(***************************************************************************)
(* getProductsByKeywords under examination: one call with a keyword list   *)
(* and a budget range, on the default mapping configuration.               *)
(***************************************************************************)
\* What extractBudgetRange can return: the six buckets, the two general
\* words and an explicit range.
ExtractorBudgets ==
    {"under-100", "100-300", "300-500", "500-1000", "1000-2000", "over-2000",
     "budget-friendly", "premium", "200-900"}

KeywordLists ==
    {<<"phone">>, <<"dress">>, <<"Tablet", "laptop">>, <<"table", "gaming", "phone">>}

KeywordBudgetStart == fnArgs = <<>> /\ fnResult = NotCalled

KeywordBudgetCall(catalog, down, keywords, budgetRange) ==
    /\ ~fnResult.called
    /\ fnArgs' = [catalog |-> catalog, down |-> down, keywords |-> keywords,
                  budgetRange |-> budgetRange]
    /\ fnResult' = Returned(getProductsByKeywords(catalog, down, defaultMappingConfig,
                                                  keywords, budgetRange))

KeywordBudgetStep ==
    \E catalog \in Catalogs, down \in FailureSets, keywords \in KeywordLists,
       budgetRange \in ExtractorBudgets :
        KeywordBudgetCall(catalog, down, keywords, budgetRange)

(***************************************************************************)
(* C20: for every budget value the context extractor can produce, every    *)
(* suggestion of the keyword strategy has a price inside the bounds of     *)
(* that budget (price <= 100 for under-100, price <= 300 for               *)
(* budget-friendly, price >= 800 for premium, price >= 2000 for            *)
(* over-2000, min <= price <= max for a range) and a stock greater than 0. *)
(***************************************************************************)
C20_InsideBudget(budgetRange, price) ==
    CASE budgetRange = "under-100" -> price <= 100
      [] budgetRange = "100-300" -> 100 <= price /\ price <= 300
      [] budgetRange = "300-500" -> 300 <= price /\ price <= 500
      [] budgetRange = "500-1000" -> 500 <= price /\ price <= 1000
      [] budgetRange = "1000-2000" -> 1000 <= price /\ price <= 2000
      [] budgetRange = "over-2000" -> price >= 2000
      [] budgetRange = "budget-friendly" -> price <= 300
      [] budgetRange = "premium" -> price >= 800
      [] budgetRange = "200-900" -> 200 <= price /\ price <= 900

C20_KeywordSuggestionsInBudget ==
    fnResult.called =>
        \A i \in DOMAIN fnResult.value.suggestions :
            /\ C20_InsideBudget(fnArgs.budgetRange,
                                fnResult.value.suggestions[i].product.price)
            /\ fnResult.value.suggestions[i].product.stock > 0

\* For the budgets other than under-100 and over-2000 the filter is applied.
C20_InBudgetButForTwoBuckets ==
    (fnResult.called /\ fnArgs.budgetRange \notin {"under-100", "over-2000"}) =>
        \A i \in DOMAIN fnResult.value.suggestions :
            /\ C20_InsideBudget(fnArgs.budgetRange,
                                fnResult.value.suggestions[i].product.price)
            /\ fnResult.value.suggestions[i].product.stock > 0

\* under-100 and over-2000 filter nothing: the call returns what it returns
\* without a budget.
C20_TwoBucketsUnfiltered ==
    (fnResult.called /\ fnArgs.budgetRange \in {"under-100", "over-2000"}) =>
        \A i \in DOMAIN fnResult.value.suggestions :
            fnResult.value.suggestions[i].product
                = getProductsByKeywords(fnArgs.catalog, fnArgs.down, defaultMappingConfig,
                                        fnArgs.keywords, Undefined).suggestions[i].product

(***************************************************************************)
(* getProductsByKeywords under examination on a catalog that also holds an *)
(* accessory: a row the search term "phone" finds and no category of the   *)
(* keyword table holds.                                                    *)
(***************************************************************************)
AccessoryRows ==
    ProductRows
        \o << Product(9, "iPhone Silicone Case", "Apple", "mobile-accessories", 30, 43,
                      20, 10, {}) >>

FallbackCatalogs == {AccessoryRows, ProductRows}

FallbackBudgets == {Undefined, "budget-friendly", "1000-2000"}

FallbackKeywordLists ==
    {<<"phone">>, <<"dress", "phone">>, <<"laptop", "phone">>, <<"phone", "laptop">>,
     <<"glasses", "watch", "phone">>, <<"glasses", "watch", "beauty", "phone">>,
     <<"table", "Laptop", "dress", "phone">>}

KeywordFallbackStart == fnArgs = <<>> /\ fnResult = NotCalled

KeywordFallbackCall(catalog, down, keywords, budgetRange) ==
    /\ ~fnResult.called
    /\ fnArgs' = [catalog |-> catalog, down |-> down, keywords |-> keywords,
                  budgetRange |-> budgetRange]
    /\ fnResult' = Returned(getProductsByKeywords(catalog, down, defaultMappingConfig,
                                                  keywords, budgetRange))

KeywordFallbackStep ==
    \E catalog \in FallbackCatalogs, down \in FailureSets,
       keywords \in FallbackKeywordLists, budgetRange \in FallbackBudgets :
        KeywordFallbackCall(catalog, down, keywords, budgetRange)

(***************************************************************************)
(* C21: in the keyword strategy, for each of the first 3 keywords that has *)
(* a mapping entry with categories, the entry's searchTerms are searched   *)
(* if and only if the category search produced no suggestion for that      *)
(* same keyword; the decision for one keyword does not depend on what      *)
(* earlier keywords produced, and keywords beyond the third are never      *)
(* looked up.  With every lookup answering, the returned list then is the  *)
(* concatenation, over the first 3 keywords, of what each keyword yields   *)
(* by itself.                                                              *)
(***************************************************************************)
C21_Products(suggestions) == [i \in DOMAIN suggestions |-> suggestions[i].product.id]

C21_HasCategories(keyword) ==
    /\ toLowerCase(keyword) \in DOMAIN defaultMappingConfig.keywords
    /\ defaultMappingConfig.keywords[toLowerCase(keyword)].categories # UndefinedList
    /\ Len(defaultMappingConfig.keywords[toLowerCase(keyword)].categories) > 0

\* The products of the category search of a keyword, after the budget and
\* stock filters.
C21_ByCategory(catalog, keyword, bounds) ==
    BestInBudget(searchProducts(catalog, {}, Undefined,
                                defaultMappingConfig.keywords[toLowerCase(keyword)]
                                    .categories[1], 10).products,
                 bounds)

RECURSIVE C21_ByTerms(_, _, _)
C21_ByTerms(catalog, searchTerms, bounds) ==
    IF searchTerms = <<>> THEN <<>>
    ELSE BestInBudget(searchProducts(catalog, {}, Head(searchTerms), Undefined,
                                     10).products, bounds)
            \o C21_ByTerms(catalog, Tail(searchTerms), bounds)

\* What one keyword yields by itself.
C21_Alone(catalog, keyword, bounds) ==
    IF C21_HasCategories(keyword)
    THEN IF Len(C21_ByCategory(catalog, keyword, bounds)) > 0
         THEN C21_ByCategory(catalog, keyword, bounds)
         ELSE C21_ByTerms(catalog,
                          Take(defaultMappingConfig.keywords[toLowerCase(keyword)]
                                   .searchTerms, 2),
                          bounds)
    ELSE BestInBudget(searchProducts(catalog, {}, keyword, Undefined, 10).products,
                      bounds)

RECURSIVE C21_Each(_, _, _)
C21_Each(catalog, keywords, bounds) ==
    IF keywords = <<>> THEN <<>>
    ELSE C21_Alone(catalog, Head(keywords), bounds)
            \o C21_Each(catalog, Tail(keywords), bounds)

C21_Expected ==
    LET found == C21_Each(fnArgs.catalog, Take(fnArgs.keywords, 3),
                          budgetBounds(fnArgs.budgetRange))
    IN  [i \in DOMAIN found |-> found[i].id]

C21_FallbackPerKeyword ==
    (fnResult.called /\ fnArgs.down = {}) =>
        C21_Products(fnResult.value.suggestions) = C21_Expected

\* The part that holds: a keyword beyond the third changes nothing.
C21_FourthKeywordIgnored ==
    fnResult.called =>
        fnResult.value
            = getProductsByKeywords(fnArgs.catalog, fnArgs.down, defaultMappingConfig,
                                    Take(fnArgs.keywords, 3), fnArgs.budgetRange)

\* The part that holds: the search terms are searched exactly when the list
\* collected so far, earlier keywords included, is empty after the category
\* search.  For the first keyword that is the claimed rule.
C21_FirstKeywordFallsBack ==
    (fnResult.called /\ fnArgs.down = {} /\ Len(fnArgs.keywords) = 1) =>
        C21_Products(fnResult.value.suggestions) = C21_Expected

(***************************************************************************)
(* getContextualSuggestions under examination: one call with a message and *)
(* a budget range, on catalogs with several iPhones.                       *)
(***************************************************************************)
PhoneShelf ==
    ProductRows
        \o << Product(10, "iPhone 5s", "Apple", "smartphones", 199, 28, 25, 12, {}),
              Product(11, "iPhone 6", "Apple", "smartphones", 299, 34, 60, 6, {}),
              Product(12, "iPhone SE", "Apple", "smartphones", 429, 39, 8, 0, {}),
              Product(13, "iPhone X", "Apple", "smartphones", 899, 25, 37, 19, {}) >>

\* A shop that carries nothing at 800 dollars or more.
CheapShelf == SelectSeq(PhoneShelf, LAMBDA p : p.price < 800)

ContextualCatalogs == {PhoneShelf, CheapShelf, ProductRows}

ContextualMessages ==
    {"best iphone camera", "I need a Laptop", "hello there", "samsung gaming tablet",
     "google pixel photo", "apple phone for games", "macbook"}

ContextualBudgets ==
    {Undefined, "100-300", "500-1000", "1000-2000", "budget-friendly", "premium"}

ContextualStart == fnArgs = <<>> /\ fnResult = NotCalled

ContextualCall(catalog, down, userMessage, budgetRange) ==
    /\ ~fnResult.called
    /\ fnArgs' = [catalog |-> catalog, down |-> down, userMessage |-> userMessage,
                  budgetRange |-> budgetRange]
    /\ fnResult' = Returned(getContextualSuggestions(catalog, down, userMessage,
                                                     budgetRange))

ContextualStep ==
    \E catalog \in ContextualCatalogs, down \in FailureSets,
       userMessage \in ContextualMessages, budgetRange \in ContextualBudgets :
        ContextualCall(catalog, down, userMessage, budgetRange)

(***************************************************************************)
(* C22: the contextual strategy applies only the first rule of its ordered *)
(* rule list whose patterns occur in the message, later rules are skipped  *)
(* even if they match, and the strategy returns at most 3 suggestions per  *)
(* call.                                                                   *)
(***************************************************************************)
C22_Matching ==
    {i \in DOMAIN productPatterns :
        \E p \in productPatterns[i].patterns :
            includes(toLowerCase(fnArgs.userMessage), p)}

C22_Alternative(s) ==
    s.reason = "Alternative smartphone within your budget" /\ s.confidence = 70

\* Suggestion s is one the rule makes: the rule's reason and confidence, a
\* product one of its first two search terms finds, of its category and brand.
C22_OfRule(rule, s) ==
    /\ StandsAt(s.reason, 1, rule.reason)
    /\ s.confidence = rule.confidence
    /\ s.type = "contextual"
    /\ \E t \in Range(Take(rule.searchTerms, 2)) : MatchesQuery(s.product, t)
    /\ rule.categoryFilter # Undefined => s.product.category = rule.categoryFilter
    /\ rule.brandFilter # Undefined => s.product.brand = rule.brandFilter

C22_FirstRuleOnly ==
    fnResult.called =>
        IF C22_Matching = {} THEN fnResult.value.suggestions = <<>>
        ELSE \A i \in DOMAIN fnResult.value.suggestions :
                \/ C22_OfRule(productPatterns[Least(C22_Matching)],
                              fnResult.value.suggestions[i])
                \/ /\ C22_Alternative(fnResult.value.suggestions[i])
                   /\ Least(C22_Matching) = 1

C22_FirstRuleAtMostThree ==
    /\ C22_FirstRuleOnly
    /\ fnResult.called => Len(fnResult.value.suggestions) <= 3

\* Amended: at most 3 suggestions for each of the at most 2 search terms of
\* the applied rule, and at most 3 alternative smartphones besides when the
\* term is 'iphone' and the budget has both bounds.
C22_Main == SelectSeq(fnResult.value.suggestions, LAMBDA s : ~C22_Alternative(s))

C22_Alternatives == SelectSeq(fnResult.value.suggestions, C22_Alternative)

C22_FirstRuleThreePerTerm ==
    /\ C22_FirstRuleOnly
    /\ (fnResult.called /\ C22_Matching # {}) =>
          LET rule == productPatterns[Least(C22_Matching)]
              bounds == budgetBounds(fnArgs.budgetRange)
          IN  /\ Len(C22_Main) <= 3 * Len(Take(rule.searchTerms, 2))
              /\ Len(C22_Alternatives) <= 3
              /\ Len(C22_Alternatives) > 0 =>
                    /\ "iphone" \in Range(Take(rule.searchTerms, 2))
                    /\ bounds.minDefined /\ bounds.maxDefined

\* A message that matches the iPhone rule and the photography rule: two
\* iPhones in budget and three alternatives, nothing of the photography rule.
C22_Witness ==
    /\ fnResult.called
    /\ fnArgs.userMessage = "best iphone camera"
    /\ C22_Matching = {1, 6}
    /\ Len(C22_Main) = 2
    /\ Len(C22_Alternatives) = 3
    /\ \A i \in DOMAIN fnResult.value.suggestions :
          ~StandsAt(fnResult.value.suggestions[i].reason, 1, productPatterns[6].reason)

(***************************************************************************)
(* C23: when budget filtering leaves no candidate for a contextual rule    *)
(* that restricts by brand or by category, the strategy returns the 1 or 2 *)
(* unfiltered candidates of that brand/category whose price is closest to  *)
(* the midpoint of the bounds (or to the single known bound), and their    *)
(* reason says 'closest option below budget' or 'closest option above      *)
(* budget'; a reason says 'within your budget' only when the product's     *)
(* price lies inside the resolved bounds.  Examined on calls with one      *)
(* search term issued and every lookup answering.                          *)
(***************************************************************************)
C23_Bounds == budgetBounds(fnArgs.budgetRange)

C23_Rule == productPatterns[Least(C22_Matching)]

C23_Restricted == C23_Rule.brandFilter # Undefined \/ C23_Rule.categoryFilter # Undefined

\* The in-stock rows the rule's search finds, of its category and brand,
\* before the budget filter.
C23_Candidates ==
    {p \in Range(fnArgs.catalog) :
        /\ MatchesQuery(p, C23_Rule.searchTerms[1])
        /\ C23_Rule.categoryFilter # Undefined => p.category = C23_Rule.categoryFilter
        /\ C23_Rule.brandFilter # Undefined => HasBrand(p, C23_Rule.brandFilter)
        /\ p.stock > 0}

\* Twice the distance of a price from the midpoint or the single bound.
C23_Distance(p) ==
    IF C23_Bounds.minDefined /\ C23_Bounds.maxDefined
    THEN Abs(2 * p.price - (C23_Bounds.minPrice + C23_Bounds.maxPrice))
    ELSE IF C23_Bounds.maxDefined THEN 2 * Abs(p.price - C23_Bounds.maxPrice)
         ELSE 2 * Abs(p.price - C23_Bounds.minPrice)

C23_Case ==
    /\ fnResult.called
    /\ fnArgs.down = {}
    /\ C22_Matching # {}
    /\ C23_Restricted
    /\ Len(C23_Rule.searchTerms) = 1
    /\ C23_Bounds.minDefined \/ C23_Bounds.maxDefined
    /\ C23_Candidates # {}
    /\ \A p \in C23_Candidates : ~InBudget(C23_Bounds, p)

C23_Says(s, text) == \E i \in 1..Len(s.reason) : StandsAt(s.reason, i, text)

\* The alternative smartphones the iPhone rule adds are left aside.
C23_ClosestReturned ==
    C23_Case =>
        /\ Len(C22_Main) = Min(2, Cardinality(C23_Candidates))
        /\ \A i \in DOMAIN C22_Main :
              /\ C22_Main[i].product \in C23_Candidates
              /\ \A q \in C23_Candidates :
                    C23_Distance(q) < C23_Distance(C22_Main[i].product)
                        => \E j \in DOMAIN C22_Main : C22_Main[j].product = q
              /\ \/ C23_Says(C22_Main[i], "closest option below budget")
                 \/ C23_Says(C22_Main[i], "closest option above budget")

C23_WithinMeansInside ==
    fnResult.called =>
        \A i \in DOMAIN fnResult.value.suggestions :
            C23_Says(fnResult.value.suggestions[i], "within your budget")
                => InBudget(C23_Bounds, fnResult.value.suggestions[i].product)

C23_ClosestAlternatives == C23_ClosestReturned /\ C23_WithinMeansInside

\* What holds: for the brand-restricted rules with an upper bound known the
\* closest candidates are returned with the annotation.
C23_ClosestForBrandBelowCeiling ==
    (C23_Case /\ C23_Rule.brandFilter # Undefined /\ C23_Bounds.maxDefined)
        => C23_ClosestReturned

\* A rule restricted by category only returns nothing in the case.
C23_CategoryRuleReturnsNothing ==
    (C23_Case /\ C23_Rule.brandFilter = Undefined)
        => fnResult.value.suggestions = <<>>

(***************************************************************************)
(* C24: the list returned by generateSmartSuggestions is ordered by        *)
(* confidence, highest first, and for every product id that occurs among   *)
(* the suggestions collected from the strategies, the surviving entry is   *)
(* one with the highest confidence among the collected entries for that    *)
(* id.  An id without a surviving entry was cut by the limit of 5: it has  *)
(* no higher confidence than the last entry returned.                      *)
(***************************************************************************)
C24_Result == sOut.service.result

C24_Collected == sOut.service.collected

C24_OrderedBestSurvives ==
    (sCall.called /\ ~sOut.service.caught) =>
        /\ \A i, j \in DOMAIN C24_Result :
              i < j => C24_Result[i].confidence >= C24_Result[j].confidence
        /\ \A i \in DOMAIN C24_Result :
              /\ C24_Result[i] \in Range(C24_Collected)
              /\ \A k \in DOMAIN C24_Collected :
                    C24_Collected[k].product.id = C24_Result[i].product.id
                        => C24_Collected[k].confidence <= C24_Result[i].confidence
        /\ \A k \in DOMAIN C24_Collected :
              \/ \E i \in DOMAIN C24_Result :
                    C24_Result[i].product.id = C24_Collected[k].product.id
              \/ /\ Len(C24_Result) = MaxSuggestions
                 /\ C24_Collected[k].confidence <= C24_Result[MaxSuggestions].confidence

\* A product collected three times with three confidences survives with the
\* highest, in a list of several confidences, another product being cut.
C24_Witness ==
    /\ sCall.called
    /\ ~sOut.service.caught
    /\ \E i \in DOMAIN C24_Result :
          /\ Cardinality({C24_Collected[k].confidence : k \in
                            {k \in DOMAIN C24_Collected :
                                C24_Collected[k].product.id = C24_Result[i].product.id}})
                = 3
          /\ i > 1
          /\ C24_Result[1].confidence > C24_Result[i].confidence
    /\ \E k \in DOMAIN C24_Collected :
          \A i \in DOMAIN C24_Result :
              C24_Result[i].product.id # C24_Collected[k].product.id

(***************************************************************************)
(* C25: in the flow without topic change, the popular fallback runs if and *)
(* only if the contextual, keyword, intent and stage strategies together   *)
(* contributed no suggestion; in particular a call with an empty context   *)
(* and a non-empty, reachable catalog returns at least one suggestion.     *)
(***************************************************************************)
C25_NormalFlow ==
    ~(/\ sCall.context.isTopicChange
      /\ sCall.context.keywords # UndefinedList
      /\ Len(sCall.context.keywords) > 0)

C25_FirstFour == {"contextual", "keyword", "intent", "stage"}

C25_NothingContributed == \A name \in C25_FirstFour : sOut.service.by[name] = <<>>

C25_EmptyContext ==
    /\ sCall.context.userMessage = Undefined
    /\ sCall.context.keywords = UndefinedList
    /\ sCall.context.userIntent = Undefined
    /\ sCall.context.conversationStage = Undefined
    /\ sCall.context.budgetRange = Undefined
    /\ ~sCall.context.isTopicChange

C25_FallbackIffNothingElse ==
    (sCall.called /\ C25_NormalFlow) =>
        /\ "popular" \in sOut.service.ran <=> C25_NothingContributed
        /\ sOut.service.by.popular # <<>> => C25_NothingContributed
        /\ (C25_NothingContributed /\ sCatalog # <<>>
                /\ ~LookupFails(sCall.down, "popular"))
              => /\ sOut.service.by.popular # <<>>
                 /\ \A i \in DOMAIN sOut.service.result :
                       sOut.service.result[i].type = "popular"
        /\ (C25_EmptyContext /\ sCatalog # <<>> /\ ~LookupFails(sCall.down, "popular"))
              => Len(sOut.suggestions) >= 1

\* Two strategies ran on a catalog that answers and found nothing; the
\* fallback supplied the list.
C25_Witness ==
    /\ sCall.called
    /\ C25_NormalFlow
    /\ Cardinality(sOut.service.ran \cap C25_FirstFour) >= 2
    /\ "popular" \in sOut.service.ran
    /\ sCall.down = {}
    /\ Len(sOut.suggestions) >= 1
    /\ \A i \in DOMAIN sOut.suggestions : sOut.suggestions[i].type = "popular"

(***************************************************************************)
(* getApplicableGuidelines under examination on the keyword axis: one      *)
(* active guideline that declares context_keywords only, one context that  *)
(* carries keywords only.                                                  *)
(***************************************************************************)
MatchConditionKeywords ==
    {<<"phone">>, <<"smartphone">>, <<"Price">>, <<"hello", "hi">>, <<"LAPTOP">>,
     <<"laptops">>, <<"budget", "cheap">>, <<"gaming laptop">>, <<"dress", "phone">>}

MatchContextKeywords ==
    {<<"phone">>, <<"Smartphone">>, <<"PRICES", "phone">>, <<"Hello">>, <<"laptop">>,
     <<"Laptops", "dress">>, <<"hi">>, <<"cheap">>, <<"dress">>, <<>>, <<"gaming">>,
     <<"price", "laptop">>, <<"watch">>}

MatchGuideline(context_keywords) ==
    [id |-> 1, priority |-> 5, is_active |-> TRUE,
     conditions |-> Conditions(UndefinedList, UndefinedList, context_keywords)]

KeywordMatchStart == fnArgs = <<>> /\ fnResult = NotCalled

KeywordMatchCall(context_keywords, keywords) ==
    /\ ~fnResult.called
    /\ fnArgs' = [context_keywords |-> context_keywords, keywords |-> keywords]
    /\ fnResult' = Returned(getApplicableGuidelines(
                               <<MatchGuideline(context_keywords)>>,
                               [userIntent |-> Undefined,
                                conversationStage |-> Undefined,
                                keywords |-> keywords]))

KeywordMatchStep ==
    \E context_keywords \in MatchConditionKeywords, keywords \in MatchContextKeywords :
        KeywordMatchCall(context_keywords, keywords)

(***************************************************************************)
(* C26: a guideline's keyword condition is satisfied when some condition   *)
(* keyword and some context keyword match as substrings case-insensitively *)
(* in either direction: the condition keyword contained in the context     *)
(* keyword, or the context keyword contained in the condition keyword.     *)
(***************************************************************************)
C26_Inside(inner, outer) == includes(LowerCased(outer), LowerCased(inner))

C26_Applies == fnResult.value # <<>>

C26_EitherDirection ==
    fnResult.called =>
        (C26_Applies <=>
            \E k \in Range(fnArgs.context_keywords), ck \in Range(fnArgs.keywords) :
                C26_Inside(k, ck) \/ C26_Inside(ck, k))

\* What holds: the condition is satisfied exactly when a condition keyword
\* is contained in a context keyword.
C26_ConditionInsideContext ==
    fnResult.called =>
        (C26_Applies <=>
            \E k \in Range(fnArgs.context_keywords), ck \in Range(fnArgs.keywords) :
                C26_Inside(k, ck))

(***************************************************************************)
(* extractContextFromMessage under examination: messages of one to three   *)
(* words, words repeated or not, in either case.                           *)
(***************************************************************************)
ExtractWords == {"phone", "Phone", "laptop", "a", "need", "$500"}

ExtractMessages ==
    ExtractWords
        \cup {first \o " " \o second : first \in ExtractWords, second \in ExtractWords}
        \cup {first \o " " \o second \o " " \o third :
                first \in {"phone", "need"}, second \in ExtractWords,
                third \in ExtractWords}

ExtractStart == fnArgs = <<>> /\ fnResult = NotCalled

ExtractCall(message) ==
    /\ ~fnResult.called
    /\ fnArgs' = [message |-> message]
    /\ fnResult' = Returned(extractContextFromMessage(message))

ExtractStep == \E message \in ExtractMessages : ExtractCall(message)

(***************************************************************************)
(* C27: the keyword list returned by extractContextFromMessage never       *)
(* contains the same keyword twice: a word repeated in the message appears *)
(* once, at the position of its first occurrence.                          *)
(***************************************************************************)
C27_NoKeywordTwice ==
    fnResult.called =>
        \A i, j \in DOMAIN fnResult.value.keywords :
            fnResult.value.keywords[i] = fnResult.value.keywords[j] => i = j

\* What holds: the list is the message's lower-cased words that pass the
\* filter, one entry per occurrence, in message order.
C27_Occurrences(word, words) == Cardinality({i \in DOMAIN words : words[i] = word})

C27_OneEntryPerOccurrence ==
    fnResult.called =>
        LET words == split(LowerCased(fnArgs.message))
        IN  /\ \A w \in Range(words) :
                  C27_Occurrences(w, fnResult.value.keywords)
                      = IF KeepsWord(w) THEN C27_Occurrences(w, words) ELSE 0
            /\ Range(fnResult.value.keywords) \subseteq Range(words)

(***************************************************************************)
(* One conversation, turn after turn: the first processMessage call names  *)
(* no conversation and creates one, every later call names the id the      *)
(* first one returned.  No store fails.                                    *)
(***************************************************************************)
MaxDialogueTurns == 9

DialogueMessages == {"hello there", "I need a Laptop"}

DialogueStart == AgentStart

\* The id the caller passes: none before the conversation exists.
DialogueId == IF conversations = <<>> THEN Undefined ELSE conversations[1].id

DialogueBegin(p, message) ==
    PMBeginWithin(p, [message |-> message, conversation_id |-> DialogueId,
                      context |-> NoRequestContext],
                  MaxDialogueTurns)

DialogueStep(p) ==
    \/ \E message \in DialogueMessages : DialogueBegin(p, message)
    \/ PMGetConversation(p, FALSE)
    \/ PMGetApplicableGuidelines(p, FALSE)
    \/ PMGenerateSmartSuggestions(p, {})
    \/ \E aiResponse \in AssistantMessages : PMGenerateResponse(p, FALSE, aiResponse)
    \/ PMAddMessageToConversation(p, FALSE)
    \/ PMUpdateConversation(p, FALSE)
    \/ PMCreateConversation(p, FALSE)

(***************************************************************************)
(* C28: for every n >= 1, the conversation stage derived during the n-th   *)
(* processMessage call on one conversation (the first call creating it,    *)
(* the later calls naming its id) equals determineConversationStage        *)
(* applied to n user turns, so a conversation advances through discovery,  *)
(* recommendation, presentation, objection_handling and reaches closing at *)
(* the 9th turn.                                                           *)
(***************************************************************************)
C28_Derived == pmCall[1].conversationStage

C28_StageOfTurn ==
    C28_Derived # Undefined =>
        /\ C28_Derived = determineConversationStage(UserOnly(pmTurns))
        /\ pmTurns = 9 => C28_Derived = "closing"

\* What holds: the stored history keeps the user message of the first turn
\* only, so every later call derives the stage from two user messages.
C28_StageStaysAtDiscovery ==
    C28_Derived # Undefined =>
        /\ C28_Derived = (IF pmTurns = 1 THEN "introduction" ELSE "discovery")
        /\ pmTurns > 1 => UserCount(pmCall[1].conversation.messages) = 1

\* The first two calls derive what the claim says.
C28_FirstTwoTurns ==
    (C28_Derived # Undefined /\ pmTurns <= 2) =>
        C28_Derived = determineConversationStage(UserOnly(pmTurns))

(***************************************************************************)
(* Instances side by side, and callers that modify what                    *)
(* getCurrentConfigurations returned.  The returned object is a new record *)
(* of the three table references the instance holds.                       *)
(***************************************************************************)
\* return { ...this.mappingConfig }
getCurrentConfigurations(ref, i) ==
    [keywords |-> ref[i].keywords, intents |-> ref[i].intents, stages |-> ref[i].stages]

\* const c = svc.getCurrentConfigurations(), then either
\* c.keywords[keyword] = config (a write into the table c refers to) or
\* c.keywords = {[keyword]: config} (a write into c itself).
ConfigModifyReturned(i, keyword, config, replacesTable) ==
    LET returned == getCurrentConfigurations(cfgRef, i)
    IN  /\ ConfigMutable(i)
        /\ cfgHeap' = IF replacesTable THEN cfgHeap
                      ELSE [cfgHeap EXCEPT ![returned.keywords].keywords =
                                               Put(@, keyword, config)]
        /\ cfgLast' = [op |-> IF replacesTable THEN "replaceReturnedTable"
                              ELSE "writeReturnedEntry",
                       instance |-> i, key |-> keyword,
                       given |-> [NoTables EXCEPT !.keywords = keyword :> config],
                       error |-> NoError,
                       before |-> mappingConfig(cfgHeap, cfgRef, i)]
        /\ cfgOps' = cfgOps + 1
        /\ UNCHANGED cfgRef

SharedStart == ConfigStart

SharedStep ==
    \/ ConfigStep
    \/ \E i \in Instances, config \in KeywordEntries, replacesTable \in BOOLEAN :
          ConfigModifyReturned(i, "tablet", config, replacesTable)

(***************************************************************************)
(* C29: the mapping configuration of one ProductService instance changes   *)
(* only through that instance's own update operations: addKeywordMapping,  *)
(* addIntentMapping or addStageConfiguration on one instance changes       *)
(* neither the configuration seen by another instance (existing or created *)
(* later) nor the module-level default configuration, and modifying the    *)
(* object returned by getCurrentConfigurations does not change the         *)
(* instance's configuration.                                               *)
(***************************************************************************)
C29_Adds == {"addKeywordMapping", "addIntentMapping", "addStageConfiguration"}

\* The module-level default, which an instance created later starts from.
C29_DefaultIntact == cfgHeap["default"] = defaultMappingConfig

C29_ReturnedCopyDetached ==
    cfgLast.op \in {"replaceReturnedTable", "writeReturnedEntry"} =>
        mappingConfig(cfgHeap, cfgRef, cfgLast.instance) = cfgLast.before

\* A step that is an add* of one instance leaves every other instance's
\* configuration as it was.
C29_OthersKept ==
    (cfgOps' = cfgOps + 1 /\ cfgLast'.op \in C29_Adds) =>
        \A j \in Instances \ {cfgLast'.instance} :
            mappingConfig(cfgHeap', cfgRef', j) = mappingConfig(cfgHeap, cfgRef, j)

C29_InstancesIsolated ==
    /\ [](C29_DefaultIntact /\ C29_ReturnedCopyDetached)
    /\ [][C29_OthersKept]_vars

\* What holds: an instance that has run updateMappingConfig owns its three
\* tables, and from then on its add* calls change only its own
\* configuration; updateMappingConfig itself changes no other instance and
\* not the default.
C29_Owns(i) ==
    /\ cfgRef[i].keywords = OwnTables(i)
    /\ cfgRef[i].intents = OwnTables(i)
    /\ cfgRef[i].stages = OwnTables(i)

C29_IsolatedStep ==
    (/\ cfgOps' = cfgOps + 1
     /\ \/ cfgLast'.op = "updateMappingConfig"
        \/ cfgLast'.op \in C29_Adds /\ C29_Owns(cfgLast'.instance))
        => /\ cfgHeap'["default"] = cfgHeap["default"]
           /\ \A j \in Instances \ {cfgLast'.instance} :
                 mappingConfig(cfgHeap', cfgRef', j) = mappingConfig(cfgHeap, cfgRef, j)

C29_IsolatedAfterUpdate == [][C29_IsolatedStep]_vars

\* A caller that replaces a table of the returned object changes nothing.
C29_ReplacedTableDetached ==
    cfgLast.op = "replaceReturnedTable" =>
        mappingConfig(cfgHeap, cfgRef, cfgLast.instance) = cfgLast.before

(***************************************************************************)
(* Two callers on one conversations table.  A call names the first stored  *)
(* conversation once there is one; the calls of the two callers interleave *)
(* at their awaits.  No store fails.  The replies have their own texts, so *)
(* that the stored list tells whose reply it holds.                        *)
(***************************************************************************)
MaxOverlapTurns == 3

\* The reply the response generator gives: one text for a call that creates
\* a conversation, one text per caller for a call on a stored conversation.
OverlapReply(p) ==
    IF pmCall[p].conversation.id = Undefined THEN "Here is a smartphone"
    ELSE IF p = 1 THEN "You can buy it with warranty"
    ELSE "Compare the price of this specification"

OverlapStart == AgentStart

OverlapBegin(p, message) ==
    PMBeginWithin(p, [message |-> message, conversation_id |-> DialogueId,
                      context |-> NoRequestContext],
                  MaxOverlapTurns)

OverlapStep ==
    \E p \in Calls :
        \/ \E message \in DialogueMessages : OverlapBegin(p, message)
        \/ PMGetConversation(p, FALSE)
        \/ PMGetApplicableGuidelines(p, FALSE)
        \/ PMGenerateSmartSuggestions(p, {})
        \/ PMGenerateResponse(p, FALSE, OverlapReply(p))
        \/ PMAddMessageToConversation(p, FALSE)
        \/ PMUpdateConversation(p, FALSE)
        \/ PMCreateConversation(p, FALSE)

(***************************************************************************)
(* C30: when two processMessage calls for the same existing conversation   *)
(* overlap in time and both complete successfully, the stored conversation *)
(* afterwards contains the assistant replies of both calls; no reply is    *)
(* overwritten by the other call's read-then-write of the message list.    *)
(***************************************************************************)
C30_BothDoneOnOne ==
    /\ \A p \in Calls : pmCall[p].pc = "done" /\ pmCall[p].conversation.id # Undefined
    /\ pmCall[1].conversation.id = pmCall[2].conversation.id

C30_Stored == getConversation(conversations, pmCall[1].conversation.id).messages

C30_ReplyOf(p) == [role |-> "assistant", content |-> pmCall[p].aiResponse]

C30_BothRepliesStored ==
    C30_BothDoneOnOne => \A p \in Calls : C30_ReplyOf(p) \in Range(C30_Stored)

\* What holds: the stored list is what the last writer read, followed by
\* its own reply; the other call's reply is in it only if the last writer
\* read the row after the other one had written.
C30_LastWriteWins ==
    C30_BothDoneOnOne =>
        \E p \in Calls : C30_Stored = Append(pmCall[p].read.messages, C30_ReplyOf(p))

\* A call that read the row after the other call's write keeps both replies.
C30_ReadAfterWriteKeepsBoth ==
    (C30_BothDoneOnOne
        /\ \E p, q \in Calls : p # q /\ C30_ReplyOf(q) \in Range(pmCall[p].read.messages))
        => \A p \in Calls : C30_ReplyOf(p) \in Range(C30_Stored)

(***************************************************************************)
(* Specifications.                                                         *)
(***************************************************************************)
SpecStageInit == StageStart /\ GuideStart /\ TopicStart /\ ConfigStart /\ SuggestIdle /\ AgentIdle /\ FnIdle

SpecStageNext == StageStep /\ UNCHANGED <<guideVars, topicVars, configVars, suggestVars, agentVars, fnVars>>

SpecStage == SpecStageInit /\ [][SpecStageNext]_vars

SpecGuideInit == GuideStart /\ StageStart /\ TopicStart /\ ConfigStart /\ SuggestIdle /\ AgentIdle /\ FnIdle

SpecGuideNext == GuideStep /\ UNCHANGED <<stageVars, topicVars, configVars, suggestVars, agentVars, fnVars>>

SpecGuide == SpecGuideInit /\ [][SpecGuideNext]_vars

SpecTopicInit == TopicStart /\ StageStart /\ GuideStart /\ ConfigStart /\ SuggestIdle /\ AgentIdle /\ FnIdle

SpecTopicNext == TopicStep /\ UNCHANGED <<stageVars, guideVars, configVars, suggestVars, agentVars, fnVars>>

SpecTopic == SpecTopicInit /\ [][SpecTopicNext]_vars

SpecConfigInit == ConfigStart /\ StageStart /\ GuideStart /\ TopicStart /\ SuggestIdle /\ AgentIdle /\ FnIdle

SpecConfigNext == ConfigStep /\ UNCHANGED <<stageVars, guideVars, topicVars, suggestVars, agentVars, fnVars>>

SpecConfig == SpecConfigInit /\ [][SpecConfigNext]_vars

SpecSuggestInit == SuggestStart /\ StageStart /\ GuideStart /\ TopicStart /\ AgentIdle /\ FnIdle

SpecSuggestNext == SuggestStep /\ UNCHANGED <<stageVars, guideVars, topicVars, agentVars, fnVars>>

SpecSuggest == SpecSuggestInit /\ [][SpecSuggestNext]_vars

SpecAgentInit == AgentStart /\ StageStart /\ TopicStart /\ ConfigStart /\ FnIdle

SpecAgentNext ==
    AgentStep(1)
    /\ UNCHANGED <<stageVars, guideVars, topicVars, configVars, suggestVars, fnVars>>

SpecAgent == SpecAgentInit /\ [][SpecAgentNext]_vars

SpecReadinessInit ==
    ReadinessStart /\ StageStart /\ GuideStart /\ TopicStart /\ ConfigStart
    /\ SuggestIdle /\ AgentIdle

SpecReadinessNext ==
    ReadinessStep
    /\ UNCHANGED <<stageVars, guideVars, topicVars, configVars, suggestVars, agentVars>>

SpecReadiness == SpecReadinessInit /\ [][SpecReadinessNext]_vars

SpecStageBatchInit ==
    StageBatchStart /\ StageStart /\ GuideStart /\ TopicStart /\ ConfigStart
    /\ SuggestIdle /\ AgentIdle

SpecStageBatchNext ==
    StageBatchStep
    /\ UNCHANGED <<stageVars, guideVars, topicVars, configVars, suggestVars, agentVars>>

SpecStageBatch == SpecStageBatchInit /\ [][SpecStageBatchNext]_vars

SpecIntentInit ==
    IntentStart /\ StageStart /\ GuideStart /\ TopicStart /\ ConfigStart
    /\ SuggestIdle /\ AgentIdle

SpecIntentNext ==
    IntentStep
    /\ UNCHANGED <<stageVars, guideVars, topicVars, configVars, suggestVars, agentVars>>

SpecIntent == SpecIntentInit /\ [][SpecIntentNext]_vars

SpecBudgetInit ==
    BudgetStart /\ StageStart /\ GuideStart /\ TopicStart /\ ConfigStart
    /\ SuggestIdle /\ AgentIdle

SpecBudgetNext ==
    BudgetStep
    /\ UNCHANGED <<stageVars, guideVars, topicVars, configVars, suggestVars, agentVars>>

SpecBudget == SpecBudgetInit /\ [][SpecBudgetNext]_vars

SpecMergeInit ==
    MergeStart /\ StageStart /\ GuideStart /\ TopicStart /\ ConfigStart
    /\ SuggestIdle /\ AgentIdle

SpecMergeNext ==
    MergeStep
    /\ UNCHANGED <<stageVars, guideVars, topicVars, configVars, suggestVars, agentVars>>

SpecMerge == SpecMergeInit /\ [][SpecMergeNext]_vars

SpecRaceInit == RaceStart /\ StageStart /\ GuideStart /\ TopicStart /\ SuggestIdle /\ AgentIdle

SpecRaceNext ==
    RaceStep /\ UNCHANGED <<stageVars, guideVars, topicVars, suggestVars, agentVars>>

SpecRace == SpecRaceInit /\ [][SpecRaceNext]_vars

SpecKeywordBudgetInit ==
    KeywordBudgetStart /\ StageStart /\ GuideStart /\ TopicStart /\ ConfigStart
    /\ SuggestIdle /\ AgentIdle

SpecKeywordBudgetNext ==
    KeywordBudgetStep
    /\ UNCHANGED <<stageVars, guideVars, topicVars, configVars, suggestVars, agentVars>>

SpecKeywordBudget == SpecKeywordBudgetInit /\ [][SpecKeywordBudgetNext]_vars

SpecKeywordFallbackInit ==
    KeywordFallbackStart /\ StageStart /\ GuideStart /\ TopicStart /\ ConfigStart
    /\ SuggestIdle /\ AgentIdle

SpecKeywordFallbackNext ==
    KeywordFallbackStep
    /\ UNCHANGED <<stageVars, guideVars, topicVars, configVars, suggestVars, agentVars>>

SpecKeywordFallback == SpecKeywordFallbackInit /\ [][SpecKeywordFallbackNext]_vars

SpecContextualInit ==
    ContextualStart /\ StageStart /\ GuideStart /\ TopicStart /\ ConfigStart
    /\ SuggestIdle /\ AgentIdle

SpecContextualNext ==
    ContextualStep
    /\ UNCHANGED <<stageVars, guideVars, topicVars, configVars, suggestVars, agentVars>>

SpecContextual == SpecContextualInit /\ [][SpecContextualNext]_vars

SpecKeywordMatchInit ==
    KeywordMatchStart /\ StageStart /\ GuideStart /\ TopicStart /\ ConfigStart
    /\ SuggestIdle /\ AgentIdle

SpecKeywordMatchNext ==
    KeywordMatchStep
    /\ UNCHANGED <<stageVars, guideVars, topicVars, configVars, suggestVars, agentVars>>

SpecKeywordMatch == SpecKeywordMatchInit /\ [][SpecKeywordMatchNext]_vars

SpecExtractInit ==
    ExtractStart /\ StageStart /\ GuideStart /\ TopicStart /\ ConfigStart
    /\ SuggestIdle /\ AgentIdle

SpecExtractNext ==
    ExtractStep
    /\ UNCHANGED <<stageVars, guideVars, topicVars, configVars, suggestVars, agentVars>>

SpecExtract == SpecExtractInit /\ [][SpecExtractNext]_vars

SpecDialogueInit == DialogueStart /\ StageStart /\ TopicStart /\ ConfigStart /\ FnIdle

SpecDialogueNext ==
    DialogueStep(1)
    /\ UNCHANGED <<stageVars, guideVars, topicVars, configVars, suggestVars, fnVars>>

SpecDialogue == SpecDialogueInit /\ [][SpecDialogueNext]_vars

SpecSharedInit ==
    SharedStart /\ StageStart /\ GuideStart /\ TopicStart /\ SuggestIdle /\ AgentIdle
    /\ FnIdle

SpecSharedNext ==
    SharedStep
    /\ UNCHANGED <<stageVars, guideVars, topicVars, suggestVars, agentVars, fnVars>>

SpecShared == SpecSharedInit /\ [][SpecSharedNext]_vars

SpecOverlapInit == OverlapStart /\ StageStart /\ TopicStart /\ ConfigStart /\ FnIdle

SpecOverlapNext ==
    OverlapStep
    /\ UNCHANGED <<stageVars, guideVars, topicVars, configVars, suggestVars, fnVars>>

SpecOverlap == SpecOverlapInit /\ [][SpecOverlapNext]_vars

====
